---- MODULE Spec2Model ----
(***************************************************************************)
(* OpenOutdoors (src/app.js): the trail store of TrailsApp, its            *)
(* persistence in localStorage, the map layers, the selection set and the  *)
(* hierarchy resolver, as a state machine with one action per handler.     *)
(*                                                                         *)
(* Trail objects live in a heap keyed by relation id (obj); the arrays of  *)
(* the program (savedTrails, allTrails, childRelations) hold references    *)
(* into it, so a trail pushed twice is the same object twice, as in the    *)
(* JavaScript; two objects that carry the same id are one heap entry.      *)
(* localStorage.setItem may throw (quota): the environment decides at each *)
(* write, at most MaxFailedWrites times in a behaviour.                    *)
(*                                                                         *)
(* Spec is the store under the handlers of the user interface. Four more   *)
(* specifications follow single operations more closely: LookupSpec the    *)
(* parent lookups of a hierarchy run in time, ResolverSpec the resolver    *)
(* under any answers of the lookups, ShareSpec the store under share links *)
(* of any content, SearchSpec one search from the click to its notice.     *)
(***************************************************************************)
EXTENDS Integers, Sequences, FiniteSets, TLC

VARIABLES
    savedTrails,        \* this.savedTrails: array of trail references
    allTrails,          \* this.allTrails: array of trail references
    trailsById,         \* this.trailsById: the keys of the id -> trail Map
    savedTrailIds,      \* this.savedTrailIds: Set of ids
    highlightedTrailIds,\* this.highlightedTrailIds: Set, in insertion order
    trailLayers,        \* this.trailLayers: the keys of the id -> layer Map
    obj,                \* the trail objects, by id
    stored,             \* localStorage['openoutdoors_trails']
    toast,              \* the text of the toast element
    runs,               \* organizeTrailHierarchy calls in flight
    sharedPending,      \* loadSharedTrails awaits fetchTrailsByRefs
    failedWrites,       \* environment: the writes the storage quota has refused
    timeSinceLastCall,  \* Date.now() - this.lastApiCallTime
    walk,               \* the parent lookups of one organizeTrailHierarchy call
    requests,           \* environment: the requests the parent-lookup endpoint saw
    lookupsFailed,      \* environment: the trails whose parent lookup failed since the last search
    search,             \* the searchTrails / findNearbyTrails call in flight
    voronoiVisible,     \* this.voronoiOverlay.visible
    shapes,             \* coordinates and wayGroups of the trail objects, by id
    storedShapes,       \* ... of the trails in localStorage['openoutdoors_trails']
    panes,              \* options.pane of the visible lines of each layer
    colors,             \* options.color of the visible lines of each layer
    focused,            \* the trail the viewport was last fitted to by focusTrail
    diagram,            \* voronoi, points, trailIds, samplingLevel of the overlay
    viewport,           \* what the map was last set or fitted to
    requested,          \* environment: the relation ids of the fetchTrailsByRefs query in flight
    inflight,           \* the searches whose answer has not arrived, in the order issued
    latest,             \* the answer to the search that was issued last
    settled             \* the parent lookups of the batch that have settled, in the order they did

vars == <<savedTrails, allTrails, trailsById, savedTrailIds, highlightedTrailIds,
          trailLayers, obj, stored, toast, runs, sharedPending, failedWrites,
          timeSinceLastCall, walk, requests, lookupsFailed, search, voronoiVisible,
          shapes, storedShapes, panes, colors, focused, diagram,
          viewport, requested, inflight, latest, settled>>

storeVars == <<savedTrails, allTrails, trailsById, savedTrailIds, highlightedTrailIds,
               trailLayers, obj, stored, toast, runs, sharedPending, failedWrites>>

\* the parent lookups followed step by step
lookupVars == <<timeSinceLastCall, walk, requests>>

\* what the environment did to a hierarchy run
resolverVars == <<lookupsFailed>>

\* a search followed step by step, and the overlay its drawing runs into
searchVars == <<search, voronoiVisible>>

\* the geometry of the trails, followed from the Overpass elements on
geometryVars == <<shapes, storedShapes>>

\* what the map shows of the trails, and the overlay
mapVars == <<panes, colors, focused, diagram>>

\* the viewport under a share link, and searches that overlap
netVars == <<viewport, requested, inflight, latest, settled>>

\* the variables the operations on the store leave alone
asyncVars == <<lookupVars, resolverVars, searchVars, geometryVars, mapVars, netVars>>

(* ------------------------------ bounds -------------------------------- *)

MaxId == 2          \* relation ids are 1..MaxId
MaxSaved == 2       \* savedTrails never grows beyond this length
MaxResults == 2     \* relations with geometry in one Overpass response
MaxParents == 1     \* parents reported by one parent lookup
MaxRuns == 1        \* hierarchy runs in flight at once
MaxShared == 1      \* trails carried by one share link
MaxLink == 2        \* ... by a share link that is followed to the viewport
MaxBody == 2        \* relation elements in the body of one parent lookup
MaxInflight == 2    \* searches waiting for their answer at once
MaxSelected == 1    \* trails selected at once
MaxFailedWrites == 1 \* writes the storage quota refuses in one behaviour
MaxRel == 4         \* relation ids of the map data are 1..MaxRel, MaxRel >= MaxId
MaxWalk == 4        \* trails handed to one organizeTrailHierarchy call that is timed
Step == 100         \* milliseconds between two readings of the clock
SearchStep == 10000 \* ... while a search is in flight

batchSize == 3
apiDelay == 200     \* milliseconds
searchTimeout == 30000

\* the ids of the relations a search, a share link or a click can name
Ids == 1..MaxId

\* the ids of all relations, those only a parent lookup reports included
Rels == 1..MaxRel

(* ------------------------------ helpers ------------------------------- *)

Range(s) == {s[i] : i \in DOMAIN s}

Has(s, x) == \E i \in DOMAIN s : s[i] = x

Min(a, b) == IF a < b THEN a ELSE b

\* the sequences over S of length at most n
SeqsUpTo(S, n) == UNION {[1..k -> S] : k \in 0..n}

\* ... without repetition
DistinctSeqs(S, n) == {s \in SeqsUpTo(S, n) : \A i, j \in DOMAIN s : s[i] = s[j] => i = j}

\* Set.prototype.add on an insertion-ordered Set
SetAdd(s, x) == IF Has(s, x) THEN s ELSE Append(s, x)

\* Set.prototype.delete
SetDelete(s, x) == SelectSeq(s, LAMBDA y : y # x)

(* ---------------------------- trail objects --------------------------- *)

\* a trail as processSearchResults and fetchTrailsByRefs assemble it: it is
\* kept only with coordinates, and has no childRelations
SearchTrail == [geo |-> TRUE, po |-> FALSE, kids |-> <<>>, merged |-> <<>>]

\* a trail a share link brought: fetched by its ref, with coordinates, or
\* decoded from the legacy format with coordinates: t.c, whatever the link
\* says there (c: the entry of the link carries coordinates)
LegacyTrail(c) == [geo |-> c, po |-> FALSE, kids |-> <<>>, merged |-> <<>>]

\* the parent organizeTrailHierarchy synthesizes
ParentTrail(children, parentIds) ==
    [geo |-> FALSE, po |-> TRUE, kids |-> children, merged |-> parentIds]

\* no object with this id is referenced
NoTrail == [geo |-> FALSE, po |-> FALSE, kids |-> <<>>, merged |-> <<>>]

RECURSIVE Closure(_, _)
\* the ids reachable from S through childRelations
Closure(o, S) ==
    LET T == S \cup UNION {Range(o[i].kids) : i \in S}
    IN  IF T = S THEN S ELSE Closure(o, T)

\* some trail reachable from S is its own descendant through childRelations
Circular(o, S) ==
    \E i \in Closure(o, S) : i \in Closure(o, Range(o[i].kids))

RunTrails(rs) == UNION {Range(rs[k].trails) : k \in DOMAIN rs}

\* the heap with the objects nothing refers to any more dropped
Heap(o, sv, al, ix, rs) ==
    LET live == Closure(o, Range(sv) \cup Range(al) \cup ix \cup RunTrails(rs))
    IN  [i \in Rels |-> IF i \in live THEN o[i] ELSE NoTrail]

(* ----------------------------- persistence ---------------------------- *)

\* localStorage.getItem returns null: the key was never written
NoStore == [present |-> FALSE, trails |-> <<>>, objs |-> [i \in Rels |-> NoTrail]]

\* JSON.stringify(this.savedTrails): the array, each trail with the trails of
\* its childRelations nested in it
Stringify(sv, o) ==
    [present |-> TRUE, trails |-> sv,
     objs |-> [i \in Rels |-> IF i \in Closure(o, Range(sv)) THEN o[i] ELSE NoTrail]]

\* JSON.stringify throws on a circular structure, setItem when the quota is
\* hit (full, which the environment decides at each write)
WriteFails(sv, o, full) == full \/ Circular(o, Range(sv))

\* the environment decides whether the write of a handler hits the quota;
\* writes tells whether the handler calls saveSavedTrails at all
Quota(full, writes) ==
    /\ full \in BOOLEAN
    /\ full => writes /\ failedWrites < MaxFailedWrites
    /\ failedWrites' = IF full THEN failedWrites + 1 ELSE failedWrites

\* saveSavedTrails that refreshes the id cache and leaves the store unwritten
saveSavedTrailsCacheOnly(sv, o, st, ids, full) ==
    [stored |-> st, ids |-> Range(sv), ok |-> TRUE, toasts |-> <<>>]

\* saveSavedTrails: the write and, only after it, the refresh of the id cache
saveSavedTrails(sv, o, st, ids, full) ==
    IF WriteFails(sv, o, full)
    THEN [stored |-> st, ids |-> ids, ok |-> FALSE, toasts |-> <<"Error saving trails">>]
    ELSE [stored |-> Stringify(sv, o), ids |-> Range(sv), ok |-> TRUE, toasts |-> <<>>]

\* loadSavedTrails: the parsed array, and the id cache it fills
loadSavedTrails(st) ==
    [trails |-> IF st.present THEN st.trails ELSE <<>>,
     ids |-> IF st.present THEN Range(st.trails) ELSE {},
     objs |-> st.objs]

\* the text the toast element holds after the showToast calls ts, in order
Shown(old, ts) == IF ts = <<>> THEN old ELSE ts[Len(ts)]

(* ------------------------------ map layers ---------------------------- *)

\* displayTrailsOnMap(ts): a layer for every trail of ts with coordinates that
\* has none yet; geo[i] tells whether trail i of ts has coordinates
displayTrailsOnMap(ts, geo, layers) == layers \cup {t \in Range(ts) : geo[t]}

GeoOf(o) == [i \in Rels |-> o[i].geo]

(* ------------------------------- startup ------------------------------ *)

\* a merge that pushes every shared trail
PushAll(sv, ts) == sv \o ts

RECURSIVE PushNew(_, _)
\* trails.forEach(trail => { if (!savedTrails.some(t => t.id === trail.id)) push })
PushNew(sv, ts) ==
    IF ts = <<>> THEN sv
    ELSE PushNew(IF Has(sv, Head(ts)) THEN sv ELSE Append(sv, Head(ts)), Tail(ts))

\* loadSharedTrails once it holds the shared trails ts (c: they carry
\* coordinates): merge into the saved set, persist, show
mergeShared(ts, c, sv, o, st, ids, full, layers) ==
    LET sv1 == PushNew(sv, ts)
        o1 == [i \in Rels |-> IF i \in Range(sv1) \ Range(sv) THEN LegacyTrail(c) ELSE o[i]]
        w == saveSavedTrails(sv1, o1, st, ids, full)
    IN  [sv |-> sv1, obj |-> o1, stored |-> w.stored, ids |-> w.ids, ok |-> w.ok,
         layers |-> displayTrailsOnMap(ts, [i \in Rels |-> c], layers),
         toasts |-> w.toasts \o <<"Loaded shared trails">>]

\* the query strings a page load is given: none, refs, a trails parameter
\* that does not parse, or one as the first revisions of the app wrote it,
\* every trail with its coordinates
Urls ==
    {[kind |-> "none", ids |-> <<>>, c |-> TRUE],
     [kind |-> "refs", ids |-> <<>>, c |-> TRUE],
     [kind |-> "malformed", ids |-> <<>>, c |-> TRUE]}
    \cup {[kind |-> "trails", ids |-> ts, c |-> TRUE] : ts \in SeqsUpTo(Ids, MaxShared)}

\* ... and the trails parameters anybody can write: the entries without
\* coordinates (c missing or empty)
AnyUrls ==
    Urls \cup {[kind |-> "trails", ids |-> ts, c |-> FALSE] : ts \in SeqsUpTo(Ids, MaxShared)}

\* the trails parameters of up to MaxLink entries, alone or beside a refs
\* parameter, which loadSharedTrails looks at first
LinkUrls ==
    AnyUrls \cup {[kind |-> kd, ids |-> ts, c |-> TRUE] :
                    kd \in {"trails", "refs"}, ts \in SeqsUpTo(Ids, MaxLink)}

\* a page load: the constructor, then init up to the first await of
\* loadSharedTrails (the legacy trails format has none)
Restart(url, full) ==
    LET loaded == loadSavedTrails(stored)
        sv0 == loaded.trails
        ids0 == {}      \* the constructor assigns new Set() after loadSavedTrails ran
        o0 == loaded.objs
        l0 == IF Len(sv0) > 0 THEN displayTrailsOnMap(sv0, GeoOf(o0), {}) ELSE {}
        m == mergeShared(url.ids, url.c, sv0, o0, stored, ids0, full, l0)
    IN  /\ url \in LinkUrls
        /\ Quota(full, url.kind = "trails")
        /\ highlightedTrailIds' = <<>>
        /\ trailsById' = {}
        /\ runs' = <<>>
        /\ IF url.kind = "trails"
           THEN /\ Len(m.sv) <= MaxSaved
                /\ savedTrails' = m.sv
                /\ allTrails' = m.sv
                /\ savedTrailIds' = m.ids
                /\ stored' = m.stored
                /\ trailLayers' = m.layers
                /\ obj' = Heap(m.obj, m.sv, m.sv, {}, <<>>)
                /\ toast' = Shown("", m.toasts)
                /\ sharedPending' = FALSE
           ELSE /\ savedTrails' = sv0
                /\ allTrails' = sv0
                /\ savedTrailIds' = ids0
                /\ UNCHANGED stored
                /\ trailLayers' = l0
                /\ obj' = Heap(o0, sv0, sv0, {}, <<>>)
                /\ toast' = IF url.kind = "malformed" THEN "Error loading shared trails" ELSE ""
                /\ sharedPending' = (url.kind = "refs")

\* loadSharedTrails resumes with the trails fetchTrailsByRefs assembled
SharedRefsArrive(ts, full) ==
    LET m == mergeShared(ts, TRUE, savedTrails, obj, stored, savedTrailIds, full,
                         trailLayers)
    IN  /\ sharedPending
        /\ Quota(full, Len(ts) > 0)
        /\ sharedPending' = FALSE
        /\ UNCHANGED <<trailsById, highlightedTrailIds, runs>>
        /\ IF Len(ts) > 0
           THEN /\ Len(m.sv) <= MaxSaved
                /\ savedTrails' = m.sv
                /\ allTrails' = m.sv
                /\ savedTrailIds' = m.ids
                /\ stored' = m.stored
                /\ trailLayers' = m.layers
                /\ obj' = Heap(m.obj, m.sv, m.sv, trailsById, runs)
                /\ toast' = Shown(toast, m.toasts)
           ELSE /\ UNCHANGED <<savedTrails, allTrails, savedTrailIds, stored, trailLayers, obj>>
                /\ toast' = "No trails could be loaded from shared link"

\* fetchTrailsByRefs throws (transport error, non-OK status, timeout)
SharedRefsFail ==
    /\ UNCHANGED failedWrites
    /\ sharedPending
    /\ sharedPending' = FALSE
    /\ toast' = "Error loading shared trails"
    /\ UNCHANGED <<savedTrails, allTrails, trailsById, savedTrailIds, highlightedTrailIds,
                   trailLayers, obj, stored, runs>>

(* ------------------------------- search ------------------------------- *)

\* a hierarchy run as organizeTrailHierarchy starts it: no batch settled yet
NewRun(ts) == [trails |-> ts, i |-> 0, parentMap |-> <<>>, parentsByName |-> <<>>]

\* the results whose id no trail of the view has
NewTrailsNotInView(sv, rs) == SelectSeq(rs, LAMBDA id : ~Has(allTrails, id))

\* the merge of processSearchResults: saved trails first, then the results
\* whose id no saved trail has
NewTrails(sv, rs) == SelectSeq(rs, LAMBDA id : ~Has(sv, id))

MergeSearch(sv, rs) == sv \o NewTrails(sv, rs)

\* updateTrailIndexes
updateTrailIndexes(al) == Range(al)

\* processSearchResults(data), rs the relations of data that have coordinates
processSearchResults(rs) ==
    LET newTrails == NewTrails(savedTrails, rs)
        al == MergeSearch(savedTrails, rs)
        o1 == [i \in Rels |-> IF Has(newTrails, i) THEN SearchTrail ELSE obj[i]]
        rn == IF Len(newTrails) > 0 THEN Append(runs, NewRun(newTrails)) ELSE runs
    IN  /\ rs \in DistinctSeqs(Ids, MaxResults)
        /\ UNCHANGED failedWrites
        /\ Len(rn) <= MaxRuns
        /\ allTrails' = al
        /\ trailsById' = updateTrailIndexes(al)
        /\ trailLayers' = displayTrailsOnMap(al, GeoOf(o1), {})
        /\ runs' = rn
        /\ obj' = Heap(o1, savedTrails, al, updateTrailIndexes(al), rn)
        /\ toast' = Shown(toast,
                <<IF Len(newTrails) = 0 /\ Len(savedTrails) = 0
                  THEN "No trails found" ELSE "Found new trails">>
                \o (IF Len(newTrails) > 0 THEN <<"Fetching parent routes...">> ELSE <<>>))
        /\ UNCHANGED <<savedTrails, savedTrailIds, highlightedTrailIds, stored,
                       sharedPending>>

\* searchTrails / findNearbyTrails end in their catch block, on the abort of
\* the 30 s timer (timedOut) or on any other error
SearchFails(timedOut) ==
    /\ timedOut \in BOOLEAN
    /\ UNCHANGED failedWrites
    /\ toast' = IF timedOut THEN "Search timed out" ELSE "Error searching trails"
    /\ UNCHANGED <<savedTrails, allTrails, trailsById, savedTrailIds, highlightedTrailIds,
                   trailLayers, obj, stored, runs, sharedPending>>

(* ---------------------------- save and remove ------------------------- *)

saveTrail(trailId, full) ==
    LET sv == Append(savedTrails, trailId)
        w == saveSavedTrails(sv, obj, stored, savedTrailIds, full)
    IN  /\ trailId \in Ids
        /\ Quota(full, trailId \in trailsById /\ trailId \notin savedTrailIds)
        /\ UNCHANGED <<allTrails, trailsById, highlightedTrailIds, trailLayers, obj,
                       runs, sharedPending>>
        /\ IF trailId \notin trailsById
           THEN /\ UNCHANGED <<savedTrails, savedTrailIds, stored, toast>>
           ELSE IF trailId \in savedTrailIds
           THEN /\ UNCHANGED <<savedTrails, savedTrailIds, stored>>
                /\ toast' = "Trail already saved!"
           ELSE /\ Len(sv) <= MaxSaved
                /\ savedTrails' = sv
                /\ stored' = w.stored
                /\ savedTrailIds' = w.ids
                /\ toast' = Shown(toast, w.toasts \o <<"Saved">>)

\* removeTrail without the refresh of allTrails: the trail stays in the view
removeTrailKeepsView(trailId, full) ==
    LET sv == SelectSeq(savedTrails, LAMBDA t : t # trailId)
        w == saveSavedTrails(sv, obj, stored, savedTrailIds, full)
    IN  [savedTrails |-> sv, stored |-> w.stored, savedTrailIds |-> w.ids,
         allTrails |-> allTrails, trailsById |-> updateTrailIndexes(allTrails),
         trailLayers |-> trailLayers \ {trailId},
         toast |-> Shown(toast, w.toasts \o <<"Trail removed">>)]

\* what removeTrail(trailId) leaves in the fields it assigns
removeTrailResult(trailId, full) ==
    LET sv == SelectSeq(savedTrails, LAMBDA t : t # trailId)
        al == SelectSeq(allTrails, LAMBDA t : t # trailId)
        w == saveSavedTrails(sv, obj, stored, savedTrailIds, full)
    IN  [savedTrails |-> sv, stored |-> w.stored, savedTrailIds |-> w.ids,
         allTrails |-> al, trailsById |-> updateTrailIndexes(al),
         trailLayers |-> trailLayers \ {trailId},
         toast |-> Shown(toast, w.toasts \o <<"Trail removed">>)]

\* removeTrail that also takes the trail out of the selection
removeTrailDeselecting(trailId, full) ==
    LET r == removeTrailResult(trailId, full)
    IN  /\ trailId \in Ids
        /\ Quota(full, TRUE)
        /\ savedTrails' = r.savedTrails
        /\ stored' = r.stored
        /\ savedTrailIds' = r.savedTrailIds
        /\ allTrails' = r.allTrails
        /\ trailsById' = r.trailsById
        /\ trailLayers' = r.trailLayers
        /\ obj' = Heap(obj, r.savedTrails, r.allTrails, r.trailsById, runs)
        /\ toast' = r.toast
        /\ highlightedTrailIds' = SetDelete(highlightedTrailIds, trailId)
        /\ UNCHANGED <<runs, sharedPending>>

removeTrail(trailId, full) ==
    LET r == removeTrailResult(trailId, full)
    IN  /\ trailId \in Ids
        /\ Quota(full, TRUE)
        /\ savedTrails' = r.savedTrails
        /\ stored' = r.stored
        /\ savedTrailIds' = r.savedTrailIds
        /\ allTrails' = r.allTrails
        /\ trailsById' = r.trailsById
        /\ trailLayers' = r.trailLayers
        /\ obj' = Heap(obj, r.savedTrails, r.allTrails, r.trailsById, runs)
        /\ toast' = r.toast
        /\ UNCHANGED <<highlightedTrailIds, runs, sharedPending>>

\* clearSavedTrails; confirmed is the answer to the confirm() dialog
clearSavedTrails(confirmed, full) ==
    LET al == SelectSeq(allTrails, LAMBDA t : t \notin savedTrailIds)
        w == saveSavedTrails(<<>>, obj, stored, savedTrailIds, full)
    IN  /\ confirmed \in BOOLEAN
        /\ Quota(full, confirmed /\ Len(savedTrails) > 0)
        /\ UNCHANGED <<highlightedTrailIds, runs, sharedPending>>
        /\ IF Len(savedTrails) = 0
           THEN /\ confirmed
                /\ toast' = "No saved trails to clear"
                /\ UNCHANGED <<savedTrails, allTrails, trailsById, savedTrailIds,
                               trailLayers, obj, stored>>
           ELSE IF ~confirmed
           THEN UNCHANGED <<savedTrails, allTrails, trailsById, savedTrailIds,
                            trailLayers, obj, stored, toast>>
           ELSE /\ trailLayers' = trailLayers \ Range(savedTrails)
                /\ allTrails' = al
                /\ trailsById' = updateTrailIndexes(al)
                /\ savedTrails' = <<>>
                /\ stored' = w.stored
                /\ savedTrailIds' = w.ids
                /\ obj' = Heap(obj, <<>>, al, updateTrailIndexes(al), runs)
                /\ toast' = Shown(toast, w.toasts \o <<"All trails cleared">>)

(* ------------------------------ selection ----------------------------- *)

toggleTrailHighlight(trailId) ==
    /\ UNCHANGED failedWrites
    /\ trailId \in Ids
    /\ Has(highlightedTrailIds, trailId) \/ Len(highlightedTrailIds) < MaxSelected
    /\ highlightedTrailIds' = IF Has(highlightedTrailIds, trailId)
                              THEN SetDelete(highlightedTrailIds, trailId)
                              ELSE SetAdd(highlightedTrailIds, trailId)
    /\ UNCHANGED <<savedTrails, allTrails, trailsById, savedTrailIds, trailLayers, obj,
                   stored, toast, runs, sharedPending>>

(* -------------------------- hierarchy resolver ------------------------ *)

\* the map data: relation i is a member of the relations i+1 .. i+MaxParents
\* (their type is route, superroute or network), named by parity; the
\* relations only a parent lookup reports are the parts of one long path and
\* carry one name
NameOf(p) == IF p <= MaxId /\ p % 2 = 0 THEN "Coast Path" ELSE "Ridge Way"

ParentsOf(child) ==
    [j \in 1..(Min(child + MaxParents, MaxId) - child) |->
        [id |-> child + j, name |-> NameOf(child + j)]]

\* how a parent lookup ends: with the list of the parents, or with a 404, any
\* other status that is not OK, a rejected fetch, an empty body or a body the
\* XML parser gives up on; parents is what the body lists
Kinds == {"ok", "notFound", "httpError", "networkError", "emptyBody", "parseError"}

\* ... but every failed lookup is read as its own body would be
ParentsAnyway(outcome) == outcome.parents

\* what fetchParentRelations returns after its request: the parents of an
\* answer that is OK and parses, the empty list otherwise
ParentsFrom(outcome) == IF outcome.kind = "ok" THEN outcome.parents ELSE <<>>

\* the outcomes of a lookup for child on this map: the lookup fails or it
\* reports the parents
Responses(child) ==
    {[kind |-> kd, parents |-> ParentsOf(child)] : kd \in {"ok", "networkError"}}

AllResponses == UNION {Responses(c) : c \in Ids}

\* parentMap.get(parent.id).push(result.trail), the entry created when missing
AddChild(pm, pid, child) ==
    IF \E k \in DOMAIN pm : pm[k].id = pid
    THEN [k \in DOMAIN pm |->
            IF pm[k].id = pid
            THEN [id |-> pid, children |-> Append(pm[k].children, child)]
            ELSE pm[k]]
    ELSE Append(pm, [id |-> pid, children |-> <<child>>])

\* parentsByName.get(parent.name).push(parent.id) unless it is included already
AddName(bn, name, pid) ==
    IF \E k \in DOMAIN bn : bn[k].name = name
    THEN [k \in DOMAIN bn |->
            IF bn[k].name = name
            THEN [name |-> name, ids |-> SetAdd(bn[k].ids, pid)]
            ELSE bn[k]]
    ELSE Append(bn, [name |-> name, ids |-> <<pid>>])

RECURSIVE GroupParents(_, _, _)
\* result.parents.forEach(parent => ...) for the result of one child
GroupParents(g, child, parents) ==
    IF parents = <<>> THEN g
    ELSE GroupParents(
            [parentMap |-> AddChild(g.parentMap, Head(parents).id, child),
             parentsByName |-> AddName(g.parentsByName, Head(parents).name, Head(parents).id)],
            child, Tail(parents))

RECURSIVE GroupResults(_, _, _)
\* results.forEach(result => { if (result) ... }), the results in batch order;
\* a child whose lookup gave no parents has the result null
GroupResults(g, batch, resp) ==
    IF batch = <<>> THEN g
    ELSE GroupResults(
            IF Len(ParentsFrom(Head(resp))) > 0
            THEN GroupParents(g, Head(batch), ParentsFrom(Head(resp)))
            ELSE g,
            Tail(batch), Tail(resp))

ChildrenOf(pm, pid) ==
    IF \E k \in DOMAIN pm : pm[k].id = pid
    THEN (CHOOSE e \in Range(pm) : e.id = pid).children
    ELSE <<>>

\* ... but only the children of the first parent id are collected
FirstChildren(acc, pm, pids) == IF pids = <<>> THEN acc ELSE ChildrenOf(pm, Head(pids))

RECURSIVE AllChildren(_, _, _)
\* parentIds.forEach(parentId => children.forEach(child => allChildren.add(child)))
AllChildren(acc, pm, pids) ==
    IF pids = <<>> THEN acc
    ELSE AllChildren(PushNew(acc, ChildrenOf(pm, Head(pids))), pm, Tail(pids))

RECURSIVE CreateParents(_, _, _)
\* for (const [parentName, parentIds] of parentsByName.entries()): a new
\* parent-only trail under the first parent id, or the children set on the
\* trail the index already has under that id
CreateParents(st, pm, bn) ==
    IF bn = <<>> THEN st
    ELSE LET pids == Head(bn).ids
             children == AllChildren(<<>>, pm, pids)
             primary == pids[1]
         IN  CreateParents(
                IF primary \notin st.ix
                THEN [all |-> Append(st.all, primary),
                      ix |-> st.ix \cup {primary},
                      obj |-> [st.obj EXCEPT ![primary] = ParentTrail(children, pids)]]
                ELSE [st EXCEPT !.obj[primary].kids = children,
                                !.obj[primary].merged = pids],
                pm, Tail(bn))

\* the sequence without its k-th element
Without(s, k) == SubSeq(s, 1, k - 1) \o SubSeq(s, k + 1, Len(s))

\* the batch the run k waits for
BatchOf(k) ==
    SubSeq(runs[k].trails, runs[k].i + 1, Min(runs[k].i + batchSize, Len(runs[k].trails)))

\* the lookups of the batch of run k end as resp: the groupings after
\* results.forEach
Grouping(k, resp) ==
    GroupResults([parentMap |-> runs[k].parentMap,
                  parentsByName |-> runs[k].parentsByName], BatchOf(k), resp)

\* what organizeTrailHierarchy assigns when it resumes after await
\* Promise.all(promises) with the outcomes resp; after the last batch the
\* parents are created in the same turn
HierarchyResult(k, resp) ==
    LET run == runs[k]
        hi == Min(run.i + batchSize, Len(run.trails))
        g == Grouping(k, resp)
        done == CreateParents([all |-> allTrails, ix |-> trailsById, obj |-> obj],
                              g.parentMap, g.parentsByName)
    IN  IF hi < Len(run.trails)
        THEN [runs |-> [runs EXCEPT ![k] =
                          [trails |-> run.trails, i |-> hi,
                           parentMap |-> g.parentMap,
                           parentsByName |-> g.parentsByName]],
              allTrails |-> allTrails, trailsById |-> trailsById, obj |-> obj]
        ELSE [runs |-> Without(runs, k),
              allTrails |-> done.all,
              trailsById |-> done.ix,
              obj |-> Heap(done.obj, savedTrails, done.all, done.ix, Without(runs, k))]

HierarchyBatch(k, resp) ==
    LET r == HierarchyResult(k, resp)
    IN  /\ k \in DOMAIN runs
        /\ Len(resp) = Len(BatchOf(k))
        /\ UNCHANGED failedWrites
        /\ UNCHANGED <<savedTrails, savedTrailIds, highlightedTrailIds, trailLayers,
                       stored, toast, sharedPending>>
        /\ runs' = r.runs
        /\ allTrails' = r.allTrails
        /\ trailsById' = r.trailsById
        /\ obj' = r.obj

\* the outcomes resp are outcomes of the lookups for the batch of run k on
\* the map of ParentsOf
OnTheMap(k, resp) ==
    /\ Len(resp) = Len(BatchOf(k))
    /\ \A j \in DOMAIN resp : resp[j] \in Responses(BatchOf(k)[j])

(* ------------------------ save selection / parent --------------------- *)

RECURSIVE SaveEach(_, _)
\* this.highlightedTrailIds.forEach(trailId => ...) of saveSelectedTrails
SaveEach(st, sel) ==
    IF sel = <<>> THEN st
    ELSE LET id == Head(sel)
         IN  SaveEach(
                IF id \notin trailsById THEN st
                ELSE IF id \in savedTrailIds
                THEN [st EXCEPT !.already = @ + 1]
                ELSE [sv |-> Append(st.sv, id),
                      saved |-> st.saved + 1,
                      already |-> st.already],
                Tail(sel))

saveSelectedTrails(full) ==
    LET st == SaveEach([sv |-> savedTrails, saved |-> 0, already |-> 0],
                       highlightedTrailIds)
        w == IF st.saved > 0
             THEN saveSavedTrails(st.sv, obj, stored, savedTrailIds, full)
             ELSE [stored |-> stored, ids |-> savedTrailIds, ok |-> TRUE, toasts |-> <<>>]
    IN  /\ Quota(full, st.saved > 0)
        /\ UNCHANGED <<allTrails, trailsById, trailLayers, obj, runs, sharedPending>>
        /\ IF Len(highlightedTrailIds) = 0
           THEN /\ toast' = "No trails selected"
                /\ UNCHANGED <<savedTrails, savedTrailIds, highlightedTrailIds, stored>>
           ELSE /\ Len(st.sv) <= MaxSaved
                /\ savedTrails' = st.sv
                /\ stored' = w.stored
                /\ savedTrailIds' = w.ids
                /\ highlightedTrailIds' = <<>>
                /\ toast' = Shown(toast, w.toasts \o
                        <<IF st.saved > 0 /\ st.already > 0 THEN "Saved some, some already saved"
                          ELSE IF st.saved > 0 THEN "Saved trail(s)"
                          ELSE "All selected trails were already saved">>)

RECURSIVE SaveChildren(_, _)
\* parent.childRelations.forEach(child => ...) of saveParentRoute
SaveChildren(sv, kids) ==
    IF kids = <<>> THEN sv
    ELSE SaveChildren(
            IF Head(kids) \notin savedTrailIds THEN Append(sv, Head(kids)) ELSE sv,
            Tail(kids))

saveParentRoute(parentId, full) ==
    LET sv1 == IF parentId \notin savedTrailIds
               THEN Append(savedTrails, parentId) ELSE savedTrails
        sv2 == SaveChildren(sv1, obj[parentId].kids)
        w == saveSavedTrails(sv2, obj, stored, savedTrailIds, full)
    IN  /\ parentId \in Ids
        /\ Quota(full, parentId \in trailsById)
        /\ UNCHANGED <<allTrails, trailsById, highlightedTrailIds, trailLayers, obj,
                       runs, sharedPending>>
        /\ IF parentId \notin trailsById
           THEN UNCHANGED <<savedTrails, savedTrailIds, stored, toast>>
           ELSE /\ Len(sv2) <= MaxSaved
                /\ savedTrails' = sv2
                /\ stored' = w.stored
                /\ savedTrailIds' = w.ids
                /\ toast' = Shown(toast, w.toasts \o <<"Saved parent with child routes">>)

(* ----------------------- parent lookups in time ----------------------- *)

\* Time is measured from events: timeSinceLastCall is Date.now() minus
\* this.lastApiCallTime, a setTimeout counts down the delay it was given.
\* Every time span of apiDelay or more is the same to the program, so spans
\* saturate there; the clock advances Step milliseconds at a time.

\* this.lastApiCallTime is undefined until the first lookup
Unset == -1

Sat(t) == IF t > apiDelay THEN apiDelay ELSE t

Elapse(t) == IF t = Unset THEN Unset ELSE Sat(t + Step)

Remaining(w) == IF w > Step THEN w - Step ELSE 0

WalkIds == 1..MaxWalk

\* the map data of the walks: the relations form a ring, each one a member
\* of the next, the last one of the first
CycleParentsOf(id) == <<[id |-> (id % MaxWalk) + 1, name |-> NameOf((id % MaxWalk) + 1)]>>

NoWalk ==
    [active |-> FALSE, trails |-> <<>>, at |-> 0, calls |-> <<>>,
     processed |-> {}, lookups |-> [id \in WalkIds |-> 0], refreshes |-> 0]

NoRequests == [since |-> Unset, gap |-> Unset]

\* fetch(`.../relation/${relationId}/relations`) leaves the browser, right
\* after this.lastApiCallTime = Date.now()
SendRequest(st, id) ==
    [since |-> 0,
     req |-> [since |-> 0, gap |-> st.req.since],
     calls |-> Append(st.calls, [pc |-> "fetching", wait |-> 0]),
     lookups |-> [st.lookups EXCEPT ![id] = @ + 1]]

\* fetchParentRelations(relationId) up to its first await: the call sleeps
\* for the rest of the delay when the last call is younger than apiDelay
fetchParentRelations(st, id) ==
    IF st.since # Unset /\ st.since < apiDelay
    THEN [st EXCEPT !.calls = Append(@, [pc |-> "sleeping", wait |-> apiDelay - st.since])]
    ELSE SendRequest(st, id)

RECURSIVE StartBatch(_, _, _)
\* batch.map(async (trail) => ...): the callbacks run one after the other,
\* each up to its first await; a processed trail resolves to null at once
StartBatch(st, batch, processed) ==
    IF batch = <<>> THEN st
    ELSE StartBatch(
            IF Head(batch) \in processed
            THEN [st EXCEPT !.calls = Append(@, [pc |-> "settled", wait |-> 0])]
            ELSE fetchParentRelations(st, Head(batch)),
            Tail(batch), processed)

\* the slice of the batch that starts at index at (0-based)
BatchAt(ts, at) == SubSeq(ts, at + 1, Min(at + batchSize, Len(ts)))

\* the loop advancing by one trail less than a batch holds
NextStartOverlapping(at) == at + batchSize - 1

\* i += batchSize
NextStart(at) == at + batchSize

\* organizeTrailHierarchy(trails) from its call to the first await
\* Promise.all(promises)
organizeTrailHierarchy(ts) ==
    LET st == StartBatch([since |-> timeSinceLastCall, req |-> requests, calls |-> <<>>,
                          lookups |-> NoWalk.lookups],
                         BatchAt(ts, 0), {})
    IN  /\ ~walk.active
        /\ Len(ts) > 0
        /\ walk' = [active |-> TRUE, trails |-> ts, at |-> 0, calls |-> st.calls,
                    processed |-> {}, lookups |-> st.lookups, refreshes |-> 0]
        /\ timeSinceLastCall' = st.since
        /\ requests' = st.req

\* the timer of the j-th call of the batch fires: lines 1757-1759
Wake(j) ==
    /\ walk.active
    /\ j \in DOMAIN walk.calls
    /\ walk.calls[j].pc = "sleeping"
    /\ walk.calls[j].wait = 0
    /\ walk' = [walk EXCEPT !.calls[j] = [pc |-> "fetching", wait |-> 0],
                            !.lookups[BatchAt(walk.trails, walk.at)[j]] = @ + 1]
    /\ timeSinceLastCall' = 0
    /\ requests' = [since |-> 0, gap |-> requests.since]

\* the lookup of the j-th call settles with the parents found (none when it
\* failed); a trail with parents is added to processed
Respond(j, parents) ==
    LET id == BatchAt(walk.trails, walk.at)[j]
    IN  /\ walk.active
        /\ j \in DOMAIN walk.calls
        /\ walk.calls[j].pc = "fetching"
        /\ parents \in {<<>>, CycleParentsOf(id)}
        /\ walk' = [walk EXCEPT !.calls[j] = [pc |-> "settled", wait |-> 0],
                                !.processed = IF Len(parents) > 0 THEN @ \cup {id} ELSE @]
        /\ UNCHANGED <<timeSinceLastCall, requests>>

\* a refresh of the list for every trail of the run
updateTrailsUIPerChild(w) == [w EXCEPT !.refreshes = @ + Len(w.trails)]

\* this.updateTrailsUI() of organizeTrailHierarchy, after the loop (line 1960;
\* line 1965 when the grouping threw): refreshes counts the calls of the run
updateTrailsUI(w) == [w EXCEPT !.refreshes = @ + 1]

\* await Promise.all(promises) resumes: the loop goes on with the next batch
\* or ends, and the parents are created and the list is refreshed
FinishBatch ==
    LET at2 == NextStart(walk.at)
        st == StartBatch([since |-> timeSinceLastCall, req |-> requests, calls |-> <<>>,
                          lookups |-> walk.lookups],
                         BatchAt(walk.trails, at2), walk.processed)
    IN  /\ walk.active
        /\ \A j \in DOMAIN walk.calls : walk.calls[j].pc = "settled"
        /\ IF at2 < Len(walk.trails)
           THEN /\ walk' = [walk EXCEPT !.at = at2, !.calls = st.calls,
                                        !.lookups = st.lookups]
                /\ timeSinceLastCall' = st.since
                /\ requests' = st.req
           ELSE /\ walk' = updateTrailsUI([walk EXCEPT !.active = FALSE, !.calls = <<>>])
                /\ UNCHANGED <<timeSinceLastCall, requests>>

\* Step milliseconds pass
Tick ==
    /\ timeSinceLastCall' = Elapse(timeSinceLastCall)
    /\ requests' = [since |-> Elapse(requests.since), gap |-> requests.gap]
    /\ walk' = [walk EXCEPT !.calls =
                    [j \in DOMAIN @ |-> [@[j] EXCEPT !.wait = Remaining(@)]]]
    /\ <<timeSinceLastCall, requests, walk>>' # <<timeSinceLastCall, requests, walk>>

(* --------------------------- a search in time ------------------------- *)

NoSearch == [pc |-> "idle", elapsed |-> 0]

\* what the body of an answer with status OK can be: not JSON, JSON without
\* an elements list, or elements with the relations rs that have coordinates
Payloads ==
    {[kind |-> "notJson", rs |-> <<>>], [kind |-> "noElements", rs |-> <<>>]}
    \cup {[kind |-> "elements", rs |-> rs] : rs \in DistinctSeqs(Ids, MaxResults)}

\* VoronoiOverlay.regenerate gets as far as _draw: three points or more were
\* collected from the layers of trails of the view. _draw then calls
\* trailId.split on the numeric id and throws
Draws(layers, al) == \E id \in layers : Has(al, id)

\* processSearchResults(data) on a body without elements: the layers are
\* cleared, then data.elements.forEach throws into the catch of searchTrails
processSearchResultsNoElements ==
    /\ trailLayers' = {}
    /\ toast' = "Error searching trails"
    /\ UNCHANGED <<savedTrails, allTrails, trailsById, savedTrailIds, highlightedTrailIds,
                   obj, stored, runs, sharedPending, failedWrites>>

\* processSearchResults(data) with the overlay visible: displayTrailsOnMap
\* throws out of regenerate after the view, the index and the layers were
\* assigned; the catch of searchTrails shows the failure notice and no
\* hierarchy run starts
processSearchResultsThrows(rs) ==
    LET newTrails == NewTrails(savedTrails, rs)
        al == MergeSearch(savedTrails, rs)
        o1 == [i \in Rels |-> IF Has(newTrails, i) THEN SearchTrail ELSE obj[i]]
    IN  /\ rs \in DistinctSeqs(Ids, MaxResults)
        /\ allTrails' = al
        /\ trailsById' = updateTrailIndexes(al)
        /\ trailLayers' = displayTrailsOnMap(al, GeoOf(o1), {})
        /\ obj' = Heap(o1, savedTrails, al, updateTrailIndexes(al), runs)
        /\ toast' = "Error searching trails"
        /\ UNCHANGED <<savedTrails, savedTrailIds, highlightedTrailIds, stored, runs,
                       sharedPending, failedWrites>>

\* searchTrails / findNearbyTrails up to await fetch(...): the 30 s timer is
\* set
searchTrails ==
    /\ search.pc = "idle"
    /\ search' = [pc |-> "fetching", elapsed |-> 0]
    /\ UNCHANGED <<storeVars, voronoiVisible>>

\* SearchStep milliseconds pass
SearchTick ==
    /\ search.pc # "idle"
    /\ search.elapsed < searchTimeout
    /\ search' = [search EXCEPT !.elapsed = Min(@ + SearchStep, searchTimeout)]
    /\ UNCHANGED <<storeVars, voronoiVisible>>

\* the timer fires: controller.abort() rejects the fetch with an AbortError
TimerFires ==
    /\ search.pc = "fetching"
    /\ search.elapsed >= searchTimeout
    /\ search' = NoSearch
    /\ SearchFails(TRUE)
    /\ UNCHANGED voronoiVisible

\* the fetch rejects: the transport failed
FetchRejects ==
    /\ search.pc = "fetching"
    /\ search.elapsed < searchTimeout
    /\ search' = NoSearch
    /\ SearchFails(FALSE)
    /\ UNCHANGED voronoiVisible

\* the fetch resolves with the status line and the headers: clearTimeout, then
\* the throw on a status that is not OK, or await response.json()
HeadersArrive(ok) ==
    /\ search.pc = "fetching"
    /\ search.elapsed < searchTimeout
    /\ UNCHANGED voronoiVisible
    /\ IF ok
       THEN /\ search' = [search EXCEPT !.pc = "reading"]
            /\ UNCHANGED storeVars
       ELSE /\ search' = NoSearch
            /\ SearchFails(FALSE)

\* response.json() settles: the body is complete
BodyArrives(p) ==
    /\ search.pc = "reading"
    /\ p \in Payloads
    /\ search' = NoSearch
    /\ UNCHANGED voronoiVisible
    /\ CASE p.kind = "notJson" -> SearchFails(FALSE)
         [] p.kind = "noElements" -> processSearchResultsNoElements
         [] p.kind = "elements" ->
                IF voronoiVisible
                   /\ Draws(displayTrailsOnMap(MergeSearch(savedTrails, p.rs),
                                               [i \in Rels |-> TRUE], {}),
                            MergeSearch(savedTrails, p.rs))
                THEN processSearchResultsThrows(p.rs)
                ELSE processSearchResults(p.rs)

\* the Q key: VoronoiOverlay.toggle(); show() throws out of _draw before its
\* toast when the overlay draws
toggleVoronoi ==
    /\ voronoiVisible' = ~voronoiVisible
    /\ toast' = IF voronoiVisible THEN "Voronoi overlay disabled"
                ELSE IF Draws(trailLayers, allTrails) THEN toast
                ELSE "Voronoi overlay enabled"
    /\ UNCHANGED <<savedTrails, allTrails, trailsById, savedTrailIds, highlightedTrailIds,
                   trailLayers, obj, stored, runs, sharedPending, failedWrites, search>>

(* ------------------------- geometry of the trails --------------------- *)

\* coordinates: [] and wayGroups: [], as a synthesized parent has them; also
\* the entry of an id no object carries
NoShape == [coordinates |-> <<>>, wayGroups |-> <<>>]

\* the property is missing from the object
Absent == "undefined"

\* the elements of an Overpass answer
Node(id, lat, lon) ==
    [type |-> "node", id |-> id, lat |-> lat, lon |-> lon, nodes |-> <<>>, members |-> <<>>]

Way(id, nodes) ==
    [type |-> "way", id |-> id, lat |-> 0, lon |-> 0, nodes |-> nodes, members |-> <<>>]

Relation(id, members) ==
    [type |-> "relation", id |-> id, lat |-> 0, lon |-> 0, nodes |-> <<>>, members |-> members]

Member(type, ref) == [type |-> type, ref |-> ref]

\* the map data: four nodes, node 4 on the equator, and three ways, the third
\* through node 4 and a node the answer does not carry
MapNodes == <<Node(1, 1, 1), Node(2, 1, 2), Node(3, 2, 2), Node(4, 0, 3)>>

MapWays == <<Way(1, <<1, 2>>), Way(2, <<2, 4, 3>>), Way(3, <<4, 5>>)>>

\* the member lists a route relation of the map data may have
MemberLists ==
    {<<Member("way", 1), Member("way", 2)>>,
     <<Member("way", 2), Member("node", 1), Member("way", 3), Member("way", 1),
       Member("way", 2)>>,
     <<Member("way", 3)>>}

\* the answers to a query: some relations, each with one of the member
\* lists, then the ways and the nodes
Datas ==
    {[k \in DOMAIN d[1] |-> Relation(d[1][k], d[2][k])] \o MapWays \o MapNodes :
        d \in {p \in DistinctSeqs(Ids, MaxResults) \X SeqsUpTo(MemberLists, MaxResults) :
                    Len(p[1]) = Len(p[2])}}

Max(S) == CHOOSE x \in S : \A y \in S : y <= x

\* nodes[element.id] = element, first pass: where the nodes with this id are
NodeIndexes(els, id) == {i \in DOMAIN els : els[i].type = "node" /\ els[i].id = id}

RECURSIVE WayCoordinates(_, _)
\* element.nodes.map(nodeId => nodes[nodeId])
\*     .filter(node => node && node.lat && node.lon).map(node => [node.lat, node.lon])
WayCoordinates(els, nodeIds) ==
    IF nodeIds = <<>> THEN <<>>
    ELSE LET ix == NodeIndexes(els, Head(nodeIds))
             rest == WayCoordinates(els, Tail(nodeIds))
         IN  IF ix = {} THEN rest
             ELSE LET node == els[Max(ix)]
                  IN  IF node.lat # 0 /\ node.lon # 0
                      THEN <<<<node.lat, node.lon>>>> \o rest
                      ELSE rest

\* ways[element.id] = {...}, second pass: where the ways with this id that
\* have coordinates are
WayIndexes(els, id) ==
    {i \in DOMAIN els : /\ els[i].type = "way"
                        /\ els[i].id = id
                        /\ Len(WayCoordinates(els, els[i].nodes)) > 0}

\* a push that leaves out a way the trail already has
PushWayOnce(trail, wayCoords) ==
    IF Has(trail.wayGroups, wayCoords) THEN trail
    ELSE [trail EXCEPT !.wayGroups = Append(@, wayCoords), !.coordinates = @ \o wayCoords]

\* trail.wayGroups.push(wayCoords); trail.coordinates.push(...wayCoords)
PushWay(trail, wayCoords) ==
    [trail EXCEPT !.wayGroups = Append(@, wayCoords), !.coordinates = @ \o wayCoords]

RECURSIVE CollectWays(_, _, _)
\* element.members.forEach(member => { if (member.type === 'way' &&
\* ways[member.ref]) ... })
CollectWays(els, trail, members) ==
    IF members = <<>> THEN trail
    ELSE LET member == Head(members)
             ix == WayIndexes(els, member.ref)
         IN  CollectWays(els,
                IF member.type = "way" /\ ix # {}
                THEN PushWay(trail, WayCoordinates(els, els[Max(ix)].nodes))
                ELSE trail,
                Tail(members))

RECURSIVE AssembleTrails(_, _)
\* third pass, from element i on: a trail for every relation element that
\* ends up with coordinates
AssembleTrails(els, i) ==
    IF i > Len(els) THEN <<>>
    ELSE LET rest == AssembleTrails(els, i + 1)
             trail == CollectWays(els,
                        [id |-> els[i].id, coordinates |-> <<>>, wayGroups |-> <<>>],
                        els[i].members)
         IN  IF els[i].type = "relation" /\ Len(trail.coordinates) > 0
             THEN <<trail>> \o rest
             ELSE rest

\* the three passes over data.elements, for every answer
Assembled == [els \in Datas |-> AssembleTrails(els, 1)]

\* the ids of the assembled trails, in order
IdsOf(ts) == [k \in DOMAIN ts |-> ts[k].id]

\* coordinates and wayGroups of the assembled trails, by id
ShapesOf(ts) ==
    [i \in Rels |-> IF Has(IdsOf(ts), i)
                    THEN LET t == ts[CHOOSE k \in DOMAIN ts : ts[k].id = i]
                         IN  [coordinates |-> t.coordinates, wayGroups |-> t.wayGroups]
                    ELSE NoShape]

\* an entry of a trails share link as shareTrails of the first revision wrote
\* it: c: trail.coordinates and no wg
LinkEntry == [c |-> <<<<1, 1>>, <<1, 2>>>>, wg |-> Absent]

\* coordinates: t.c, wayGroups: t.wg || []
LegacyShape(t) ==
    [coordinates |-> t.c, wayGroups |-> IF t.wg = Absent THEN <<>> ELSE t.wg]

\* the shapes after a handler: created are the ids it made objects for, with
\* the shapes new; o2 is the heap it leaves
Reshape(created, new, o2) ==
    [i \in Rels |-> IF o2[i] = NoTrail THEN NoShape
                    ELSE IF i \in created THEN new[i]
                    ELSE shapes[i]]

\* JSON.stringify(this.savedTrails) writes coordinates and wayGroups of every
\* trail it writes; st2 and sh2 are the store and the shapes the handler leaves
Persist(st2, sh2) ==
    IF st2 = stored THEN storedShapes
    ELSE [i \in Rels |-> IF st2.objs[i] = NoTrail THEN NoShape ELSE sh2[i]]

\* processSearchResults(data)
searchGeometry(els) ==
    LET ts == Assembled[els]
    IN  /\ processSearchResults(IdsOf(ts))
        /\ shapes' = Reshape({i \in Rels : Has(NewTrails(savedTrails, IdsOf(ts)), i)},
                             ShapesOf(ts), obj')
        /\ UNCHANGED storedShapes

\* the view processSearchResults(data) leaves: the trails in order, with
\* their coordinates and wayGroups
SearchView(els) ==
    LET ts == Assembled[els]
        al == MergeSearch(savedTrails, IdsOf(ts))
    IN  [trails |-> al,
         shapes |-> [i \in Rels |-> IF Has(NewTrails(savedTrails, IdsOf(ts)), i)
                                    THEN ShapesOf(ts)[i]
                                    ELSE IF Has(al, i) THEN shapes[i] ELSE NoShape]]

\* a page load: the shapes JSON.parse gives back are those that were written
restartGeometry(url) ==
    /\ url \in Urls
    /\ Restart(url, FALSE)
    /\ shapes' = [i \in Rels |-> IF obj'[i] = NoTrail THEN NoShape
                                 ELSE IF stored.objs[i] # NoTrail THEN storedShapes[i]
                                 ELSE LegacyShape(LinkEntry)]
    /\ storedShapes' = Persist(stored', shapes')

\* loadSharedTrails resumes with the trails fetchTrailsByRefs assembled from
\* the answer els
sharedRefsGeometry(els) ==
    LET ts == Assembled[els]
    IN  /\ Len(ts) <= MaxShared
        /\ SharedRefsArrive(IdsOf(ts), FALSE)
        /\ shapes' = Reshape(Range(PushNew(savedTrails, IdsOf(ts))) \ Range(savedTrails),
                             ShapesOf(ts), obj')
        /\ storedShapes' = Persist(stored', shapes')

\* a batch of a hierarchy run: the parents it creates have no geometry
hierarchyGeometry(k, resp) ==
    /\ OnTheMap(k, resp)
    /\ HierarchyBatch(k, resp)
    /\ shapes' = Reshape(trailsById' \ trailsById, [i \in Rels |-> NoShape], obj')
    /\ UNCHANGED storedShapes

\* saveTrail, saveParentRoute and removeTrail create no trail
keepGeometry ==
    /\ shapes' = Reshape({}, shapes, obj')
    /\ storedShapes' = Persist(stored', shapes')

(* ------------------------- the map and the overlay --------------------- *)

\* the id has no layer
NoLayer == "none"

\* no trail: null
Nothing == 0

NoDiagram == [voronoi |-> <<>>, points |-> <<>>, samplingLevel |-> 0]

Blue == "#2196F3"

Green == "#2c7a3f"

Red == "#e74c3c"

\* what select, deselect and focus work on
MapState == [h |-> highlightedTrailIds, panes |-> panes, colors |-> colors, focused |-> focused]

SetMap(m) ==
    /\ highlightedTrailIds' = m.h
    /\ panes' = m.panes
    /\ colors' = m.colors
    /\ focused' = m.focused

\* getTrailPane(trailId), with the selection h and the id cache ids
getTrailPane(h, ids, trailId) ==
    IF Has(h, trailId) THEN "selectedTrailsPane"
    ELSE IF trailId \in ids THEN "savedTrailsPane"
    ELSE "searchedTrailsPane"

moveTrailToPane(m, trailId, pane) ==
    IF trailId \in trailLayers THEN [m EXCEPT !.panes[trailId] = pane] ELSE m

updateTrailColor(m, trailId, color) ==
    IF trailId \in trailLayers THEN [m EXCEPT !.colors[trailId] = color] ELSE m

\* focusTrail(trailId): the viewport is fitted to the trail, or to the
\* children of a parent without coordinates
focusTrail(m, trailId) ==
    IF trailId \notin trailsById THEN m
    ELSE IF obj[trailId].po /\ Len(obj[trailId].kids) > 0
    THEN IF \E c \in Range(obj[trailId].kids) : obj[c].geo
         THEN [m EXCEPT !.focused = trailId] ELSE m
    ELSE IF obj[trailId].geo THEN [m EXCEPT !.focused = trailId] ELSE m

selectTrail(m, trailId, shouldFocus) ==
    LET m1 == updateTrailColor(
                moveTrailToPane([m EXCEPT !.h = SetAdd(@, trailId)], trailId,
                                "selectedTrailsPane"),
                trailId, Blue)
    IN  IF shouldFocus THEN focusTrail(m1, trailId) ELSE m1

\* deselectTrail(trailId), ids the id cache
deselectTrail(m, trailId, ids) ==
    updateTrailColor(
        moveTrailToPane([m EXCEPT !.h = SetDelete(@, trailId)], trailId,
                        IF trailId \in ids THEN "savedTrailsPane" ELSE "searchedTrailsPane"),
        trailId, IF trailId \in ids THEN Green ELSE Red)

\* toggleTrailHighlight(trailId) with what it does to the layer
ToggleOnMap(m, trailId) ==
    IF Has(m.h, trailId) THEN deselectTrail(m, trailId, savedTrailIds)
    ELSE selectTrail(m, trailId, TRUE)

RECURSIVE SelectEach(_, _)
\* forEach(id => { if (!this.highlightedTrailIds.has(id)) this.selectTrail(id, false) })
SelectEach(m, ts) ==
    IF ts = <<>> THEN m
    ELSE SelectEach(IF Has(m.h, Head(ts)) THEN m ELSE selectTrail(m, Head(ts), FALSE), Tail(ts))

RECURSIVE DeselectEach(_, _, _)
\* forEach(id => { if (this.highlightedTrailIds.has(id)) this.deselectTrail(id) })
DeselectEach(m, ts, ids) ==
    IF ts = <<>> THEN m
    ELSE DeselectEach(IF Has(m.h, Head(ts)) THEN deselectTrail(m, Head(ts), ids) ELSE m,
                      Tail(ts), ids)

\* the pixels of the fat-finger tolerance and the weight of the hit lines
tolerancePx == 20

hitWeight == 20

\* the sampling levels the keys 1-9 set are 0..8; the model has 0..MaxLevel
MaxLevel == 2

\* the viewport initMap sets: setView([51.505, -0.09], 10)
DefaultView == [kind |-> "default", box |-> <<>>, trails |-> {}]

\* no search was issued
NoAnswer == [issued |-> FALSE, rs |-> <<>>]

\* the map data on the screen, in pixels (the zoom is fixed, so metres and
\* pixels differ by a factor): trail id runs along y = 20 * (id - 1), three
\* points in one way
Line(id) == <<<<0, 20 * (id - 1)>>, <<20, 20 * (id - 1)>>, <<40, 20 * (id - 1)>>>>

\* where the user clicks: between trails 1 and 2, on trail 1, beyond trail 2,
\* near the end of trail 1
ClickPoints == {<<20, 10>>, <<20, 0>>, <<10, 30>>, <<40, -10>>}

Sq(x) == x * x

\* distanceToSegment(point, start, end) <= reach, in exact arithmetic
NearSegment(point, start, end, reach) ==
    LET A == point[1] - start[1]
        B == point[2] - start[2]
        C == end[1] - start[1]
        D == end[2] - start[2]
        dot == A * C + B * D
        lenSq == C * C + D * D
    IN  IF lenSq = 0 \/ dot < 0 THEN Sq(A) + Sq(B) <= Sq(reach)
        ELSE IF dot > lenSq THEN Sq(point[1] - end[1]) + Sq(point[2] - end[2]) <= Sq(reach)
        ELSE Sq(A * D - B * C) <= Sq(reach) * lenSq

isPointNearPolyline(point, latlngs, reach) ==
    \E i \in 1..(Len(latlngs) - 1) : NearSegment(point, latlngs[i], latlngs[i + 1], reach)

\* the keys of this.trailLayers that are trails of the view, in the order
\* displayTrailsOnMap(this.allTrails) inserted them
LayerOrder(al, layers) == SelectSeq(al, LAMBDA id : id \in layers)

\* findTrailsAtPoint(point, 20)
findTrailsAtPoint(point) ==
    SelectSeq(LayerOrder(allTrails, trailLayers),
              LAMBDA id : isPointNearPolyline(point, Line(id), tolerancePx))

RECURSIVE Pow2(_)
Pow2(n) == IF n = 0 THEN 1 ELSE 2 * Pow2(n - 1)

RECURSIVE Sample(_, _, _, _)
\* for (let i = 0; i < coords.length; i += step): the point and its owner
Sample(trailId, coords, i, step) ==
    IF i > Len(coords) THEN <<>>
    ELSE <<[point |-> coords[i], trailId |-> trailId]>> \o Sample(trailId, coords, i + step, step)

RECURSIVE collectTrailPoints(_, _)
\* collectTrailPoints over the layers order, sampled at every step-th point
collectTrailPoints(order, step) ==
    IF order = <<>> THEN <<>>
    ELSE Sample(Head(order), Line(Head(order)), 1, step) \o collectTrailPoints(Tail(order), step)

\* regenerate(): points and trailIds are replaced; voronoi only with three
\* points or more
regenerate(d, order) ==
    LET collected == collectTrailPoints(order, Pow2(d.samplingLevel))
    IN  IF Len(collected) < 3 THEN [d EXCEPT !.points = collected]
        ELSE [d EXCEPT !.points = collected, !.voronoi = collected]

\* regenerate gets as far as renderOverlay: _draw throws on the numeric ids
Throws(d, order) == Len(collectTrailPoints(order, Pow2(d.samplingLevel))) >= 3

Dist2(p, q) == Sq(p[1] - q[1]) + Sq(p[2] - q[2])

\* findNearestTrail(clickPoint): the trail ids the answer can be, the
\* diagram's nearest site looked up in this.trailIds (one of the nearest when
\* several are equally near)
findNearestTrail(d, point) ==
    IF d.voronoi = <<>> \/ d.points = <<>> THEN {Nothing}
    ELSE {IF i <= Len(d.points) THEN d.points[i].trailId ELSE Nothing :
            i \in {j \in DOMAIN d.voronoi :
                    \A k \in DOMAIN d.voronoi :
                        Dist2(d.voronoi[j].point, point) <= Dist2(d.voronoi[k].point, point)}}

\* handleTrailClick(e, trailId): the click at point lands on a hit line of
\* the trail trailId
handleTrailClick(point, trailId) ==
    LET overlappingTrails == findTrailsAtPoint(point)
    IN  /\ point \in ClickPoints
        /\ trailId \in trailLayers
        /\ isPointNearPolyline(point, Line(trailId), hitWeight \div 2)
        /\ \E nearestTrailId \in
                (IF voronoiVisible THEN findNearestTrail(diagram, point) ELSE {Nothing}) :
              SetMap(IF nearestTrailId # Nothing THEN ToggleOnMap(MapState, nearestTrailId)
                     ELSE IF Len(overlappingTrails) > 1
                     THEN focusTrail(SelectEach(MapState, overlappingTrails),
                                     overlappingTrails[1])
                     ELSE ToggleOnMap(MapState, trailId))
        /\ UNCHANGED <<savedTrails, allTrails, trailsById, savedTrailIds, trailLayers, obj,
                       stored, toast, runs, sharedPending, failedWrites, diagram>>

\* what toggleParentAndChildren(parentId) leaves of the selection and the map
toggleParentResult(parentId) ==
    IF parentId \notin trailsById THEN MapState
    ELSE IF Has(highlightedTrailIds, parentId)
    THEN DeselectEach(deselectTrail(MapState, parentId, savedTrailIds),
                      obj[parentId].kids, savedTrailIds)
    ELSE focusTrail(SelectEach(selectTrail(MapState, parentId, FALSE), obj[parentId].kids),
                    parentId)

\* the list shows a parent item for the trail
ParentItem(parentId) == Has(allTrails, parentId) /\ Len(obj[parentId].kids) > 0

\* toggleParentAndChildren(parentId), the click on the parent item of the list
toggleParentAndChildren(parentId) ==
    /\ parentId \in Rels
    /\ ParentItem(parentId)
    /\ SetMap(toggleParentResult(parentId))
    /\ UNCHANGED <<savedTrails, allTrails, trailsById, savedTrailIds, trailLayers, obj,
                   stored, toast, runs, sharedPending, failedWrites, diagram>>

\* highlightTrail(trailId, highlight): the pointer enters or leaves a hit
\* line or a list item
highlightTrail(trailId, highlight) ==
    /\ trailId \in Rels
    /\ trailId \in trailLayers \/ Has(allTrails, trailId)
    /\ highlight \in BOOLEAN
    /\ colors' = IF trailId \notin trailLayers THEN colors
                 ELSE IF highlight THEN [colors EXCEPT ![trailId] = Blue]
                 ELSE IF Has(highlightedTrailIds, trailId) THEN colors
                 ELSE [colors EXCEPT ![trailId] =
                            IF trailId \in savedTrailIds THEN Green ELSE Red]
    /\ UNCHANGED <<storeVars, panes, focused, diagram>>

\* VoronoiOverlay.toggle(), the Q key: show() regenerates, and throws out of
\* _draw before its toast when the overlay draws
toggle ==
    /\ voronoiVisible' = ~voronoiVisible
    /\ diagram' = IF voronoiVisible THEN diagram
                  ELSE regenerate(diagram, LayerOrder(allTrails, trailLayers))
    /\ toast' = IF voronoiVisible THEN "Voronoi overlay disabled"
                ELSE IF Throws(diagram, LayerOrder(allTrails, trailLayers)) THEN toast
                ELSE "Voronoi overlay enabled"
    /\ UNCHANGED <<savedTrails, allTrails, trailsById, savedTrailIds, highlightedTrailIds,
                   trailLayers, obj, stored, runs, sharedPending, failedWrites, search,
                   panes, colors, focused>>

\* VoronoiOverlay.setSamplingLevel(level), the keys 1-9
setSamplingLevel(level) ==
    LET d == [diagram EXCEPT !.samplingLevel = level]
    IN  /\ level \in 0..MaxLevel
        /\ diagram' = IF voronoiVisible
                      THEN regenerate(d, LayerOrder(allTrails, trailLayers)) ELSE d
        /\ toast' = IF voronoiVisible /\ Throws(d, LayerOrder(allTrails, trailLayers))
                    THEN toast ELSE "Using points"
        /\ UNCHANGED <<savedTrails, allTrails, trailsById, savedTrailIds, highlightedTrailIds,
                       trailLayers, obj, stored, runs, sharedPending, failedWrites, search,
                       voronoiVisible, panes, colors, focused>>

\* the map's moveend event
moveend ==
    /\ voronoiVisible
    /\ diagram' = regenerate(diagram, LayerOrder(allTrails, trailLayers))
    /\ toast' = IF Throws(diagram, LayerOrder(allTrails, trailLayers)) THEN toast
                ELSE "Not enough trail points for Voronoi diagram"
    /\ UNCHANGED <<savedTrails, allTrails, trailsById, savedTrailIds, highlightedTrailIds,
                   trailLayers, obj, stored, runs, sharedPending, failedWrites, search,
                   voronoiVisible, panes, colors, focused>>

\* the layers displayTrailsOnMap adds: kept are the layers that were there,
\* h, ids and sv the selection, the id cache and the saved trails it reads
Display(kept, layers, h, ids, sv, old) ==
    [panes |-> [i \in Rels |-> IF i \notin layers THEN NoLayer
                               ELSE IF i \in kept THEN old.panes[i]
                               ELSE getTrailPane(h, ids, i)],
     colors |-> [i \in Rels |-> IF i \notin layers THEN NoLayer
                                ELSE IF i \in kept THEN old.colors[i]
                                ELSE IF Has(sv, i) THEN Green ELSE Red]]

\* processSearchResults(data) with its layers: they are cleared and drawn
\* anew; the overlay, when visible, is regenerated and throws when it draws
searchOnMap(rs) ==
    LET order == LayerOrder(allTrails', trailLayers')
        shown == Display({}, trailLayers', highlightedTrailIds, savedTrailIds, savedTrails,
                         MapState)
    IN  /\ IF voronoiVisible
              /\ Throws(diagram, LayerOrder(MergeSearch(savedTrails, rs),
                                            Range(MergeSearch(savedTrails, rs))))
           THEN processSearchResultsThrows(rs)
           ELSE processSearchResults(rs)
        /\ panes' = shown.panes
        /\ colors' = shown.colors
        /\ diagram' = IF voronoiVisible THEN regenerate(diagram, order) ELSE diagram
        /\ UNCHANGED focused

\* removeTrail(trailId) with its layer
removeOnMap(trailId) ==
    /\ removeTrail(trailId, FALSE)
    /\ panes' = [panes EXCEPT ![trailId] = NoLayer]
    /\ colors' = [colors EXCEPT ![trailId] = NoLayer]
    /\ UNCHANGED <<focused, diagram>>

\* a page load with its layers: init displays the saved trails while the id
\* cache is empty, loadSharedTrails the shared ones after its save
restartOnMap(url, full) ==
    LET loaded == loadSavedTrails(stored)
        l0 == IF Len(loaded.trails) > 0
              THEN displayTrailsOnMap(loaded.trails, GeoOf(loaded.objs), {}) ELSE {}
        first == Display({}, l0, <<>>, {}, loaded.trails, MapState)
        shown == Display(l0, trailLayers', <<>>, savedTrailIds', savedTrails', first)
    IN  /\ Restart(url, full)
        /\ panes' = shown.panes
        /\ colors' = shown.colors
        /\ focused' = Nothing
        /\ diagram' = NoDiagram

\* saveTrail(trailId) with its layer
saveTrailOnMap(trailId, full) ==
    /\ saveTrail(trailId, full)
    /\ IF trailId \in trailsById /\ trailId \notin savedTrailIds
       THEN /\ panes' = (IF Has(highlightedTrailIds, trailId) THEN MapState
                         ELSE moveTrailToPane(MapState, trailId, "savedTrailsPane")).panes
            /\ colors' = updateTrailColor(MapState, trailId, Green).colors
       ELSE UNCHANGED <<panes, colors>>
    /\ UNCHANGED <<focused, diagram>>

\* saveSelectedTrails with its layers: the newly saved are recoloured, then
\* every selected trail is deselected
saveSelectedOnMap(full) ==
    LET recoloured == [MapState EXCEPT !.colors =
                          [i \in Rels |-> IF /\ Has(highlightedTrailIds, i)
                                             /\ i \in trailsById
                                             /\ i \notin savedTrailIds
                                             /\ i \in trailLayers
                                          THEN Green ELSE colors[i]]]
        m == DeselectEach(recoloured, highlightedTrailIds, savedTrailIds')
    IN  /\ saveSelectedTrails(full)
        /\ panes' = m.panes
        /\ colors' = m.colors
        /\ UNCHANGED <<focused, diagram>>

\* saveParentRoute(parentId) with its layers: the children are recoloured
saveParentOnMap(parentId, full) ==
    /\ saveParentRoute(parentId, full)
    /\ colors' = [i \in Rels |-> IF /\ parentId \in trailsById
                                    /\ Has(obj[parentId].kids, i)
                                    /\ i \in trailLayers
                                 THEN Green ELSE colors[i]]
    /\ UNCHANGED <<panes, focused, diagram>>

\* toggleTrailHighlight(trailId), the click on a list item, with its layer
toggleOnMap(trailId) ==
    /\ toggleTrailHighlight(trailId)
    /\ Has(allTrails, trailId)
    /\ panes' = ToggleOnMap(MapState, trailId).panes
    /\ colors' = ToggleOnMap(MapState, trailId).colors
    /\ focused' = ToggleOnMap(MapState, trailId).focused
    /\ UNCHANGED diagram

(* ------------------------------ share links -------------------------- *)

\* urlParams.get(name): null, or the text, here split at its commas
NoParam == [present |-> FALSE, parts |-> <<>>]

Param(parts) == [present |-> TRUE, parts |-> parts]

\* if (refsParam), if (bboxParam): null and the empty string are falsy
Truthy(param) == param.present /\ param.parts # <<"">>

\* refs parameters: "", "1", "1, 2" and "2,,1"
RefsParams ==
    {NoParam, Param(<<"">>), Param(<<"1">>), Param(<<"1", " 2">>), Param(<<"2", "", "1">>)}

\* bbox parameters: "10,10,11,11", "0,0,11,11", "10,10,11" and "10,x,11,11"
BboxParams ==
    {NoParam, Param(<<"10", "10", "11", "11">>), Param(<<"0", "0", "11", "11">>),
     Param(<<"10", "10", "11">>), Param(<<"10", "x", "11", "11">>)}

\* trails parameters: the ids of the entries of the JSON array
TrailsParams ==
    {[present |-> FALSE, ids |-> <<>>]}
    \cup {[present |-> TRUE, ids |-> ts] : ts \in SeqsUpTo(Ids, MaxLink)}

\* the query strings of the links that are followed
Links == [refs : RefsParams, bbox : BboxParams, trails : TrailsParams]

\* ref.trim()
Trim(text) == IF text = " 2" THEN "2" ELSE text

\* the relation the Overpass statement relation(ref); names
RelationOf(ref) == IF ref = "1" THEN 1 ELSE 2

\* refsParam.split(',').map(ref => ref.trim()).filter(ref => ref), and the
\* statements relation(ref); of the query built from it
QueryIds(refs) ==
    LET kept == SelectSeq([k \in DOMAIN refs.parts |-> Trim(refs.parts[k])],
                          LAMBDA ref : ref # "")
    IN  [k \in DOMAIN kept |-> RelationOf(kept[k])]

NaN == [nan |-> TRUE, value |-> 0]

\* a parse that takes a zero for no number
parseFloatNoZero(text) ==
    IF text = "10" THEN [nan |-> FALSE, value |-> 10]
    ELSE IF text = "11" THEN [nan |-> FALSE, value |-> 11]
    ELSE NaN

\* parseFloat(text)
parseFloat(text) ==
    IF text = "10" THEN [nan |-> FALSE, value |-> 10]
    ELSE IF text = "11" THEN [nan |-> FALSE, value |-> 11]
    ELSE IF text = "0" THEN [nan |-> FALSE, value |-> 0]
    ELSE NaN

\* const [south, west, north, east] = bboxParam.split(',').map(parseFloat):
\* a name beyond the end of the array is undefined, and isNaN(undefined)
ParsedBox(bbox) ==
    [k \in 1..4 |-> IF k <= Len(bbox.parts) THEN parseFloat(bbox.parts[k]) ELSE NaN]

\* the viewport after displayTrailsOnMap: fitted to all layers, if any
FitLayers(layers, old) ==
    IF layers # {} THEN [kind |-> "trails", box |-> <<>>, trails |-> layers] ELSE old

\* the viewport when loadSharedTrails awaits or returns: fitBounds with the
\* four numbers of the bbox beside a refs parameter, else what init and the
\* display of the trails left
LinkView(link, layers) ==
    IF /\ Truthy(link.refs)
       /\ Truthy(link.bbox)
       /\ \A k \in 1..4 : ~ParsedBox(link.bbox)[k].nan
    THEN [kind |-> "box", box |-> [k \in 1..4 |-> ParsedBox(link.bbox)[k].value],
          trails |-> {}]
    ELSE FitLayers(layers, DefaultView)

\* what Restart is told of the link: refs are looked at first
UrlOf(link) ==
    [kind |-> IF Truthy(link.refs) THEN "refs"
              ELSE IF link.trails.present THEN "trails" ELSE "none",
     ids |-> link.trails.ids, c |-> TRUE]

\* a page load with the query string link
openLink(link) ==
    /\ link \in Links
    /\ Restart(UrlOf(link), FALSE)
    /\ requested' = IF Truthy(link.refs) THEN QueryIds(link.refs) ELSE <<>>
    /\ viewport' = LinkView(link, trailLayers')
    /\ UNCHANGED <<inflight, latest, settled>>

\* fetchTrailsByRefs returns the trails ts: relations of the query that the
\* answer carries with coordinates
linkArrives(ts) ==
    /\ Range(ts) \subseteq Range(requested)
    /\ SharedRefsArrive(ts, FALSE)
    /\ requested' = <<>>
    /\ viewport' = IF Len(ts) > 0 THEN FitLayers(trailLayers', viewport) ELSE viewport
    /\ UNCHANGED <<inflight, latest, settled>>

\* fetchTrailsByRefs throws
linkFails ==
    /\ SharedRefsFail
    /\ requested' = <<>>
    /\ UNCHANGED <<viewport, inflight, latest, settled>>

\* processSearchResults(data) with the viewport its display fits
searchFits(rs) ==
    /\ processSearchResults(rs)
    /\ viewport' = FitLayers(trailLayers', viewport)
    /\ UNCHANGED <<requested, inflight, latest, settled>>

(* --------------------------- the state machine ------------------------ *)

\* the first page load of a browser that never stored anything
Init ==
    /\ savedTrails = <<>>
    /\ allTrails = <<>>
    /\ trailsById = {}
    /\ savedTrailIds = {}
    /\ highlightedTrailIds = <<>>
    /\ trailLayers = {}
    /\ obj = [i \in Rels |-> NoTrail]
    /\ stored = NoStore
    /\ toast = ""
    /\ runs = <<>>
    /\ sharedPending = FALSE
    /\ failedWrites = 0
    /\ timeSinceLastCall = Unset
    /\ walk = NoWalk
    /\ requests = NoRequests
    /\ lookupsFailed = {}
    /\ search = NoSearch
    /\ voronoiVisible = FALSE
    /\ shapes = [i \in Rels |-> NoShape]
    /\ storedShapes = [i \in Rels |-> NoShape]
    /\ panes = [i \in Rels |-> NoLayer]
    /\ colors = [i \in Rels |-> NoLayer]
    /\ focused = Nothing
    /\ diagram = NoDiagram
    /\ viewport = DefaultView
    /\ requested = <<>>
    /\ inflight = <<>>
    /\ latest = NoAnswer
    /\ settled = <<>>

Next ==
    \/ \E url \in Urls, full \in BOOLEAN : Restart(url, full) /\ UNCHANGED asyncVars
    \/ \E ts \in DistinctSeqs(Ids, MaxShared), full \in BOOLEAN : SharedRefsArrive(ts, full) /\ UNCHANGED asyncVars
    \/ SharedRefsFail /\ UNCHANGED asyncVars
    \/ \E rs \in DistinctSeqs(Ids, MaxResults) : processSearchResults(rs) /\ UNCHANGED asyncVars
    \/ \E timedOut \in BOOLEAN : SearchFails(timedOut) /\ UNCHANGED asyncVars
    \/ \E k \in DOMAIN runs, resp \in SeqsUpTo(AllResponses, batchSize) :
            OnTheMap(k, resp) /\ HierarchyBatch(k, resp) /\ UNCHANGED asyncVars
    \/ \E id \in Ids, full \in BOOLEAN : saveTrail(id, full) /\ UNCHANGED asyncVars
    \/ \E full \in BOOLEAN : saveSelectedTrails(full) /\ UNCHANGED asyncVars
    \/ \E id \in Ids, full \in BOOLEAN : saveParentRoute(id, full) /\ UNCHANGED asyncVars
    \/ \E id \in Ids, full \in BOOLEAN : removeTrail(id, full) /\ UNCHANGED asyncVars
    \/ \E c, full \in BOOLEAN : clearSavedTrails(c, full) /\ UNCHANGED asyncVars
    \/ \E id \in Ids : toggleTrailHighlight(id) /\ UNCHANGED asyncVars

Spec == Init /\ [][Next]_vars

\* the parent lookups of hierarchy runs, one after the other, in time; the
\* event loop runs every timer that is due and every lookup settles
LookupNext ==
    \/ \E ts \in DistinctSeqs(WalkIds, MaxWalk) : organizeTrailHierarchy(ts) /\ UNCHANGED <<storeVars, netVars, resolverVars, searchVars, geometryVars, mapVars>>
    \/ \E j \in 1..batchSize : Wake(j) /\ UNCHANGED <<storeVars, netVars, resolverVars, searchVars, geometryVars, mapVars>>
    \/ \E j \in 1..batchSize, parents \in SeqsUpTo(UNION {Range(CycleParentsOf(id)) : id \in WalkIds}, 1) :
            Respond(j, parents) /\ UNCHANGED <<storeVars, netVars, resolverVars, searchVars, geometryVars, mapVars>>
    \/ FinishBatch /\ UNCHANGED <<storeVars, netVars, resolverVars, searchVars, geometryVars, mapVars>>
    \/ Tick /\ UNCHANGED <<storeVars, netVars, resolverVars, searchVars, geometryVars, mapVars>>

LookupSpec == Init /\ [][LookupNext]_vars /\ WF_vars(LookupNext)

\* the hierarchy resolver on any answers of the parent-lookup endpoint: every
\* lookup may fail in every way, and report any relations as parents

ParentInfos == {[id |-> p, name |-> NameOf(p)] : p \in Rels}

AnyOutcomes ==
    {[kind |-> kd, parents |-> ps] : kd \in Kinds, ps \in DistinctSeqs(ParentInfos, MaxParents)}

\* the trails of the batch whose lookup did not end with a list of parents
Failed(k, resp) == {BatchOf(k)[j] : j \in {i \in DOMAIN resp : resp[i].kind # "ok"}}

ResolverNext ==
    \/ \E rs \in DistinctSeqs(Ids, MaxResults) :
            processSearchResults(rs) /\ lookupsFailed' = {} /\ UNCHANGED <<netVars, lookupVars, searchVars, geometryVars, mapVars>>
    \/ \E k \in DOMAIN runs : \E resp \in [1..Len(BatchOf(k)) -> AnyOutcomes] :
            /\ HierarchyBatch(k, resp)
            /\ lookupsFailed' = lookupsFailed \cup Failed(k, resp)
            /\ UNCHANGED <<netVars, lookupVars, searchVars, geometryVars, mapVars>>
    \/ \E id \in Ids : saveTrail(id, FALSE) /\ UNCHANGED asyncVars
    \/ \E id \in Ids : removeTrail(id, FALSE) /\ UNCHANGED asyncVars

ResolverSpec == Init /\ [][ResolverNext]_vars

\* the resolver under any lookup outcomes, with the Save button of a parent
SaveParentNext ==
    \/ \E rs \in DistinctSeqs(Ids, MaxResults) :
            processSearchResults(rs) /\ lookupsFailed' = {} /\ UNCHANGED <<netVars, lookupVars, searchVars, geometryVars, mapVars>>
    \/ \E k \in DOMAIN runs : \E resp \in [1..Len(BatchOf(k)) -> AnyOutcomes] :
            /\ HierarchyBatch(k, resp)
            /\ lookupsFailed' = lookupsFailed \cup Failed(k, resp)
            /\ UNCHANGED <<netVars, lookupVars, searchVars, geometryVars, mapVars>>
    \/ \E id \in Ids : saveParentRoute(id, FALSE) /\ UNCHANGED asyncVars
    \/ \E id \in Ids : removeTrail(id, FALSE) /\ UNCHANGED asyncVars

SaveParentSpec == Init /\ [][SaveParentNext]_vars

\* searchTrails / findNearbyTrails up to await fetch(...): the request
\* leaves, rs are the relations with coordinates its answer will carry
searchIssued(rs) ==
    /\ rs \in DistinctSeqs(Ids, MaxResults)
    /\ Len(inflight) < MaxInflight
    /\ inflight' = Append(inflight, rs)
    /\ latest' = [issued |-> TRUE, rs |-> rs]
    /\ UNCHANGED <<viewport, requested, settled>>
    /\ UNCHANGED <<storeVars, lookupVars, resolverVars, searchVars, geometryVars, mapVars>>

\* the answer to the k-th waiting search arrives with status OK:
\* processSearchResults(data)
searchAnswered(k) ==
    /\ k \in DOMAIN inflight
    /\ processSearchResults(inflight[k])
    /\ inflight' = Without(inflight, k)
    /\ UNCHANGED <<viewport, requested, latest, settled>>
    /\ UNCHANGED <<lookupVars, resolverVars, searchVars, geometryVars, mapVars>>

\* searches whose answers arrive in any order; the lookups of the hierarchy
\* runs find no parents
OverlapNext ==
    \/ \E rs \in DistinctSeqs(Ids, MaxResults) : searchIssued(rs)
    \/ \E k \in 1..MaxInflight : searchAnswered(k)
    \/ \E k \in DOMAIN runs :
            /\ HierarchyBatch(k, [j \in DOMAIN BatchOf(k) |-> [kind |-> "ok", parents |-> <<>>]])
            /\ UNCHANGED asyncVars
    \/ \E id \in Ids : saveTrail(id, FALSE) /\ UNCHANGED asyncVars

OverlapSpec == Init /\ [][OverlapNext]_vars

\* what the lookups of one batch can settle with: a failure or a list of
\* parents
Settlements ==
    {[kind |-> kd, parents |-> ps] :
        kd \in {"ok", "networkError"}, ps \in DistinctSeqs(ParentInfos, MaxParents)}

\* the results in the order the lookups settled
InArrivalOrder(done) == [k \in DOMAIN done |-> done[k].outcome]

\* await Promise.all(promises): the result of the j-th promise at index j
PromiseAll(done) ==
    [j \in DOMAIN done |-> (CHOOSE e \in Range(done) : e.j = j).outcome]

\* the lookup of the j-th trail of the batch settles with outcome
lookupSettles(j, outcome) ==
    /\ Len(runs) = 1
    /\ j \in DOMAIN BatchOf(1)
    /\ \A e \in Range(settled) : e.j # j
    /\ settled' = Append(settled, [j |-> j, outcome |-> outcome])
    /\ UNCHANGED <<viewport, requested, inflight, latest>>
    /\ UNCHANGED <<storeVars, lookupVars, resolverVars, searchVars, geometryVars, mapVars>>

\* every lookup of the batch has settled: organizeTrailHierarchy resumes
\* with the results
promisesSettle ==
    /\ Len(runs) = 1
    /\ Len(settled) = Len(BatchOf(1))
    /\ HierarchyBatch(1, PromiseAll(settled))
    /\ lookupsFailed' = lookupsFailed \cup Failed(1, PromiseAll(settled))
    /\ settled' = <<>>
    /\ UNCHANGED <<viewport, requested, inflight, latest>>
    /\ UNCHANGED <<lookupVars, searchVars, geometryVars, mapVars>>

\* the resolver when the lookups of a batch settle one by one, in any order
ArrivalNext ==
    \/ \E rs \in DistinctSeqs(Ids, MaxResults) :
            processSearchResults(rs) /\ lookupsFailed' = {} /\ UNCHANGED <<netVars, lookupVars, searchVars, geometryVars, mapVars>>
    \/ \E j \in 1..batchSize, outcome \in Settlements : lookupSettles(j, outcome)
    \/ promisesSettle
    \/ \E id \in Ids : removeTrail(id, FALSE) /\ UNCHANGED asyncVars

ArrivalSpec == Init /\ [][ArrivalNext]_vars

\* the relations a parent lookup may list: relation 2 is a boundary, the
\* relations from 5 on carry no type tag
TypeOf(p) ==
    IF p = 1 THEN "route"
    ELSE IF p = 2 THEN "boundary"
    ELSE IF p = 3 THEN "superroute"
    ELSE IF p = 4 THEN "network"
    ELSE ""

\* the relation elements of the body of a lookup
Bodies == DistinctSeqs({[id |-> p, type |-> TypeOf(p)] : p \in Rels}, MaxBody)

\* a test that lets every relation with a type tag pass
acceptsTyped(type) == type # ""

\* tags.type === 'route' || tags.type === 'superroute' || tags.type === 'network'
acceptsParent(type) == type \in {"route", "superroute", "network"}

\* the parents fetchParentRelations pushes for the relation elements of body
parseParents(body) ==
    LET kept == SelectSeq(body, LAMBDA el : acceptsParent(el.type))
    IN  [k \in DOMAIN kept |-> [id |-> kept[k].id, name |-> NameOf(kept[k].id)]]

\* the resolver when the lookups list relations of any type
TypeNext ==
    \/ \E rs \in DistinctSeqs(Ids, MaxResults) :
            processSearchResults(rs) /\ lookupsFailed' = {} /\ UNCHANGED <<netVars, lookupVars, searchVars, geometryVars, mapVars>>
    \/ \E k \in DOMAIN runs : \E bodies \in [1..Len(BatchOf(k)) -> Bodies] :
            /\ HierarchyBatch(k, [j \in DOMAIN bodies |->
                                    [kind |-> "ok", parents |-> parseParents(bodies[j])]])
            /\ lookupsFailed' = lookupsFailed
            /\ UNCHANGED <<netVars, lookupVars, searchVars, geometryVars, mapVars>>
    \/ \E id \in Ids : saveTrail(id, FALSE) /\ UNCHANGED asyncVars
    \/ \E id \in Ids : removeTrail(id, FALSE) /\ UNCHANGED asyncVars

TypeSpec == Init /\ [][TypeNext]_vars

\* the store when share links come from anywhere
ShareNext ==
    \/ \E url \in AnyUrls : Restart(url, FALSE) /\ UNCHANGED asyncVars
    \/ \E rs \in DistinctSeqs(Ids, MaxResults) : processSearchResults(rs) /\ UNCHANGED asyncVars
    \/ \E k \in DOMAIN runs, resp \in SeqsUpTo(AllResponses, batchSize) :
            OnTheMap(k, resp) /\ HierarchyBatch(k, resp) /\ UNCHANGED asyncVars
    \/ \E id \in Ids : saveTrail(id, FALSE) /\ UNCHANGED asyncVars
    \/ \E id \in Ids : saveParentRoute(id, FALSE) /\ UNCHANGED asyncVars
    \/ \E id \in Ids : removeTrail(id, FALSE) /\ UNCHANGED asyncVars

ShareSpec == Init /\ [][ShareNext]_vars

\* a search from the click to the notice, under the 30 s timer
SearchNext ==
    \/ searchTrails /\ UNCHANGED <<netVars, lookupVars, resolverVars, geometryVars, mapVars>>
    \/ SearchTick /\ UNCHANGED <<netVars, lookupVars, resolverVars, geometryVars, mapVars>>
    \/ TimerFires /\ UNCHANGED <<netVars, lookupVars, resolverVars, geometryVars, mapVars>>
    \/ FetchRejects /\ UNCHANGED <<netVars, lookupVars, resolverVars, geometryVars, mapVars>>
    \/ \E ok \in BOOLEAN : HeadersArrive(ok) /\ UNCHANGED <<netVars, lookupVars, resolverVars, geometryVars, mapVars>>
    \/ \E p \in Payloads : BodyArrives(p) /\ UNCHANGED <<netVars, lookupVars, resolverVars, geometryVars, mapVars>>
    \/ toggleVoronoi /\ UNCHANGED <<netVars, lookupVars, resolverVars, geometryVars, mapVars>>
    \/ \E k \in DOMAIN runs, resp \in SeqsUpTo(AllResponses, batchSize) :
            OnTheMap(k, resp) /\ HierarchyBatch(k, resp) /\ UNCHANGED asyncVars
    \/ \E id \in Ids : saveTrail(id, FALSE) /\ UNCHANGED asyncVars
    \/ \E id \in Ids : removeTrail(id, FALSE) /\ UNCHANGED asyncVars

SearchSpec == Init /\ [][SearchNext]_vars

\* the geometry of the trails of the store, from the elements of the answers,
\* the share links and the storage on
GeometryNext ==
    \/ \E url \in Urls : restartGeometry(url) /\ UNCHANGED <<netVars, lookupVars, resolverVars, searchVars, mapVars>>
    \/ \E els \in Datas : sharedRefsGeometry(els) /\ UNCHANGED <<netVars, lookupVars, resolverVars, searchVars, mapVars>>
    \/ \E els \in Datas : searchGeometry(els) /\ UNCHANGED <<netVars, lookupVars, resolverVars, searchVars, mapVars>>
    \/ \E k \in DOMAIN runs, resp \in SeqsUpTo(AllResponses, batchSize) :
            hierarchyGeometry(k, resp) /\ UNCHANGED <<netVars, lookupVars, resolverVars, searchVars, mapVars>>
    \/ \E id \in Ids : saveTrail(id, FALSE) /\ keepGeometry /\ UNCHANGED <<netVars, lookupVars, resolverVars, searchVars, mapVars>>
    \/ \E id \in Ids : saveParentRoute(id, FALSE) /\ keepGeometry /\ UNCHANGED <<netVars, lookupVars, resolverVars, searchVars, mapVars>>
    \/ \E id \in Ids : removeTrail(id, FALSE) /\ keepGeometry /\ UNCHANGED <<netVars, lookupVars, resolverVars, searchVars, mapVars>>

GeometrySpec == Init /\ [][GeometryNext]_vars

\* clicks on the map, with the tolerance scan and with the overlay
ClickNext ==
    \/ \E rs \in DistinctSeqs(Ids, MaxResults) : searchOnMap(rs) /\ UNCHANGED <<netVars, lookupVars, resolverVars, geometryVars, search, voronoiVisible>>
    \/ \E id \in Ids : removeOnMap(id) /\ UNCHANGED <<netVars, lookupVars, resolverVars, geometryVars, searchVars>>
    \/ \E point \in ClickPoints, id \in Ids : handleTrailClick(point, id) /\ UNCHANGED <<netVars, lookupVars, resolverVars, geometryVars, searchVars>>
    \/ toggle /\ UNCHANGED <<netVars, lookupVars, resolverVars, geometryVars>>
    \/ \E level \in 0..MaxLevel : setSamplingLevel(level) /\ UNCHANGED <<netVars, lookupVars, resolverVars, geometryVars>>
    \/ moveend /\ UNCHANGED <<netVars, lookupVars, resolverVars, geometryVars>>


\* page loads with share links, followed to the viewport
LinkNext ==
    \/ \E link \in Links : openLink(link) /\ UNCHANGED <<lookupVars, resolverVars, searchVars, geometryVars, mapVars>>
    \/ \E ts \in DistinctSeqs(Ids, MaxLink) : linkArrives(ts) /\ UNCHANGED <<lookupVars, resolverVars, searchVars, geometryVars, mapVars>>
    \/ linkFails /\ UNCHANGED <<lookupVars, resolverVars, searchVars, geometryVars, mapVars>>
    \/ \E rs \in DistinctSeqs(Ids, MaxResults) : searchFits(rs) /\ UNCHANGED <<lookupVars, resolverVars, searchVars, geometryVars, mapVars>>
    \/ \E id \in Ids : removeTrail(id, FALSE) /\ UNCHANGED asyncVars

LinkSpec == Init /\ [][LinkNext]_vars

ClickSpec == Init /\ [][ClickNext]_vars

\* the layers through page loads, searches, saves and the selection
PaneNext ==
    \/ \E url \in Urls : restartOnMap(url, FALSE) /\ UNCHANGED <<netVars, lookupVars, resolverVars, geometryVars, searchVars>>
    \/ \E rs \in DistinctSeqs(Ids, MaxResults) : searchOnMap(rs) /\ UNCHANGED <<netVars, lookupVars, resolverVars, geometryVars, searchVars>>
    \/ \E k \in DOMAIN runs, resp \in SeqsUpTo(AllResponses, batchSize) :
            OnTheMap(k, resp) /\ HierarchyBatch(k, resp) /\ UNCHANGED asyncVars
    \/ \E id \in Ids : saveTrailOnMap(id, FALSE) /\ UNCHANGED <<netVars, lookupVars, resolverVars, geometryVars, searchVars>>
    \/ saveSelectedOnMap(FALSE) /\ UNCHANGED <<netVars, lookupVars, resolverVars, geometryVars, searchVars>>
    \/ \E id \in Ids : saveParentOnMap(id, FALSE) /\ UNCHANGED <<netVars, lookupVars, resolverVars, geometryVars, searchVars>>
    \/ \E id \in Ids : toggleOnMap(id) /\ UNCHANGED <<netVars, lookupVars, resolverVars, geometryVars, searchVars>>
    \/ \E id \in Ids : toggleParentAndChildren(id) /\ UNCHANGED <<netVars, lookupVars, resolverVars, geometryVars, searchVars>>
    \/ \E id \in Ids, highlight \in BOOLEAN : highlightTrail(id, highlight) /\ UNCHANGED <<netVars, lookupVars, resolverVars, geometryVars, searchVars, failedWrites>>

PaneSpec == Init /\ [][PaneNext]_vars

(* ------------------------------- claims ------------------------------- *)

\* how often the id x occurs in the array s
Count(s, x) == Cardinality({i \in DOMAIN s : s[i] = x})

\* C1: after processSearchResults the all-trails view holds every id of the
\* saved set exactly once, every result id that is not saved exactly once,
\* and nothing else.
C1_MergeInvariant ==
    [][\A rs \in DistinctSeqs(Ids, MaxResults) :
          processSearchResults(rs) =>
              /\ Range(allTrails') = Range(savedTrails) \cup Range(rs)
              /\ \A id \in Range(allTrails') : Count(allTrails', id) = 1]_vars

\* C2: in every reachable state every trail of the saved set is in the
\* all-trails view.
C2_SavedInAllTrails == \A id \in Range(savedTrails) : Has(allTrails, id)

\* C3: in every reachable state no id occurs twice in allTrails and no id
\* occurs twice in savedTrails.
C3_UniqueIds ==
    /\ \A id \in Range(allTrails) : Count(allTrails, id) = 1
    /\ \A id \in Range(savedTrails) : Count(savedTrails, id) = 1

\* C4: saveTrail(id): an id of the all-trails view that is not saved is
\* appended to the saved set once and, unless the write fails, persisted; an
\* id that is saved leaves the saved set and the store unchanged and shows
\* the already-saved notice; an unknown id changes nothing.
C4_Save ==
    [][\A id \in Ids, full \in BOOLEAN :
          saveTrail(id, full) =>
              IF Has(savedTrails, id)
              THEN /\ UNCHANGED <<savedTrails, stored>>
                   /\ toast' = "Trail already saved!"
              ELSE IF Has(allTrails, id)
              THEN /\ savedTrails' = Append(savedTrails, id)
                   /\ WriteFails(savedTrails', obj, full) \/ stored' = Stringify(savedTrails', obj)
              ELSE UNCHANGED vars]_vars

\* what removeTrail(id) would assign is what the fields hold already
RemoveChangesNothing(id, full) ==
    removeTrailResult(id, full) =
        [savedTrails |-> savedTrails, stored |-> stored, savedTrailIds |-> savedTrailIds,
         allTrails |-> allTrails, trailsById |-> trailsById, trailLayers |-> trailLayers,
         toast |-> toast]

C6_ClearAll ==
    [][(clearSavedTrails(TRUE, FALSE) /\ Len(savedTrails) > 0) =>
          /\ savedTrails' = <<>>
          /\ stored'.present /\ stored'.trails = <<>>
          /\ \A id \in Range(savedTrails) : ~Has(allTrails', id) /\ id \notin trailLayers'
          /\ \A id \in Range(allTrails) \ Range(savedTrails) : Has(allTrails', id)]_vars

\* a step of one of the handlers that change the saved set, its write not
\* refused by the quota
SavingStep ==
    \/ \E id \in Ids : saveTrail(id, FALSE)
    \/ saveSelectedTrails(FALSE)
    \/ \E id \in Ids : saveParentRoute(id, FALSE)
    \/ \E id \in Ids : removeTrail(id, FALSE)
    \/ clearSavedTrails(TRUE, FALSE)
    \/ \E ts \in DistinctSeqs(Ids, MaxShared) : SharedRefsArrive(ts, FALSE)
    \/ \E url \in Urls : url.kind = "trails" /\ Restart(url, FALSE)

\* C7: when saveTrail, saveSelectedTrails, saveParentRoute, removeTrail,
\* clearSavedTrails or loadSharedTrails changes the saved set and the write
\* does not fail, the stored array holds the ids of savedTrails, in order.
C7_PersistenceSynchronous ==
    [][(/\ SavingStep
        /\ savedTrails' # savedTrails
        /\ ~Circular(obj', Range(savedTrails'))) =>
          /\ stored'.present
          /\ stored'.trails = savedTrails']_vars

\* a parent was saved with its child and both are in the store, in order
C7_Witness ==
    /\ toast = "Saved parent with child routes"
    /\ failedWrites = 0
    /\ Len(savedTrails) = 2
    /\ obj[savedTrails[1]].kids = <<savedTrails[2]>>
    /\ stored.present /\ stored.trails = savedTrails

\* C8: when the write of saveTrail fails, the saved set keeps the new trail
\* and the notice showing when saveTrail ends is the error notice.
C8_FailedWriteReported ==
    [][\A id \in Ids :
          (saveTrail(id, TRUE) /\ id \in trailsById /\ id \notin savedTrailIds) =>
              /\ savedTrails' = Append(savedTrails, id)
              /\ toast' = "Error saving trails"]_vars

\* C9: a restart from the store gives a saved set with the stored trails,
\* each reported as saved by the membership check, and removing the one
\* stored trail then leaves the saved set and the stored array empty.
C9_RoundTrip ==
    [][\A url \in Urls :
          (Restart(url, FALSE) /\ url.kind = "none" /\ stored.present) =>
              /\ savedTrails' = stored.trails
              /\ \A id \in Ids : id \in savedTrailIds' <=> Has(savedTrails', id)
              /\ Len(savedTrails') = 1 =>
                    LET r == removeTrailResult(savedTrails[1], FALSE)'
                    IN  r.savedTrails = <<>> /\ r.stored.present /\ r.stored.trails = <<>>]_vars

\* C10: in every reachable state savedTrailIds is the set of the ids of
\* savedTrails.
C10_SavedIdCache == savedTrailIds = Range(savedTrails)

\* C11: in every reachable state the id index holds exactly the ids of the
\* trails of the all-trails view.
C11_IndexMatchesView == trailsById = Range(allTrails)

\* C12: whenever the parent-lookup endpoint receives a request, at least
\* apiDelay milliseconds have passed since the request before it, within a
\* batch and from one batch to the next.
C12_MinimumSpacing == requests.gap = Unset \/ requests.gap >= apiDelay

NoParents == [kind |-> "ok", parents |-> <<>>]

\* C13: whatever way the parent lookup of one child of a batch fails, the run
\* goes on and assigns what it would assign had that lookup returned the empty
\* list: the same groupings, the same parents with the same children.
C13_FailedLookupIsNoParents ==
    \A k \in DOMAIN runs : \A resp \in [1..Len(BatchOf(k)) -> AnyOutcomes] :
        \A j \in DOMAIN resp :
            resp[j].kind # "ok" =>
                HierarchyResult(k, resp) = HierarchyResult(k, [resp EXCEPT ![j] = NoParents])

\* a run has ended in which the lookup of one trail failed and the lookup of
\* another gave it a parent: the parent is in the view with the sibling as its
\* only child
C13_Witness ==
    /\ runs = <<>>
    /\ \E f \in lookupsFailed, c \in Range(allTrails) \ lookupsFailed :
          /\ Has(allTrails, f)
          /\ \E p \in Range(allTrails) : obj[p].po /\ obj[p].kids = <<c>>

\* the run k is at its last batch: the parents are created when it resumes
LastBatch(k) == runs[k].i + batchSize >= Len(runs[k].trails)

\* the names of the grouping g under which two parent ids were collected whose
\* child lists share no trail
Merges(g) ==
    {e \in Range(g.parentsByName) :
        /\ Len(e.ids) = 2
        /\ Range(ChildrenOf(g.parentMap, e.ids[1]))
              \cap Range(ChildrenOf(g.parentMap, e.ids[2])) = {}}

\* in the result r the trail of the first parent id of e lists the children
\* of both parents, each once, and both parent ids, and the second parent id
\* was not added to the view
MergedUnderFirst(r, g, e) ==
    /\ r.obj[e.ids[1]].kids
          = ChildrenOf(g.parentMap, e.ids[1]) \o ChildrenOf(g.parentMap, e.ids[2])
    /\ \A c \in Range(r.obj[e.ids[1]].kids) : Count(r.obj[e.ids[1]].kids, c) = 1
    /\ r.obj[e.ids[1]].merged = e.ids
    /\ Count(r.allTrails, e.ids[2]) = Count(allTrails, e.ids[2])

\* in the result r a parent-only trail was added to the view under id p
AddedParent(r, p) ==
    /\ Count(r.allTrails, p) = Count(allTrails, p) + 1
    /\ r.obj[p].po
    /\ ~r.obj[p].geo

\* C14, as stated: when a run ends with two parent ids of one name whose
\* child lists are disjoint, it adds one synthetic parent under the first
\* parent id, with the children of both, each once, and both parent ids.
C14_MergeAddsOneParent ==
    \A k \in DOMAIN runs : \A resp \in [1..Len(BatchOf(k)) -> AnyOutcomes] :
        LastBatch(k) =>
            \A e \in Merges(Grouping(k, resp)) :
                /\ AddedParent(HierarchyResult(k, resp), e.ids[1])
                /\ MergedUnderFirst(HierarchyResult(k, resp), Grouping(k, resp), e)

\* C14, amended: ... it adds that synthetic parent unless the id index holds
\* a trail under the first parent id already; then it adds no trail under
\* that id, and the trail of the index gets the children of both and both
\* parent ids.
C14_MergeAddsOrUpdates ==
    \A k \in DOMAIN runs : \A resp \in [1..Len(BatchOf(k)) -> AnyOutcomes] :
        LastBatch(k) =>
            \A e \in Merges(Grouping(k, resp)) :
                /\ IF e.ids[1] \in trailsById
                   THEN Count(HierarchyResult(k, resp).allTrails, e.ids[1])
                            = Count(allTrails, e.ids[1])
                   ELSE AddedParent(HierarchyResult(k, resp), e.ids[1])
                /\ MergedUnderFirst(HierarchyResult(k, resp), Grouping(k, resp), e)

\* a run has ended that merged two parents nobody searched for: the view
\* holds one parent-only trail with two children and two parent ids
C14_Witness ==
    /\ runs = <<>>
    /\ \E p \in Range(allTrails) \ Ids :
          /\ obj[p].po
          /\ Len(obj[p].kids) = 2
          /\ Len(obj[p].merged) = 2
          /\ \A q \in Range(obj[p].merged) : q \notin Ids
          /\ Count(allTrails, p) = 1

\* C16: in every reachable state no trail of the view is its own descendant
\* through childRelations.
C16_Acyclic == ~Circular(obj, Range(allTrails))

\* C17: in every reachable state a parent-only trail of the store has no
\* coordinates and some children, and a trail of the store without
\* coordinates is such a parent-only trail.
C17_ParentOnlyShape ==
    \A i \in Range(allTrails) \cup Range(savedTrails) :
        /\ obj[i].po => ~obj[i].geo /\ obj[i].kids # <<>>
        /\ ~obj[i].geo => obj[i].po /\ obj[i].kids # <<>>

\* C18: a body that is complete only after the deadline of the search changes
\* neither the view nor the saved set, the selection or the layers.
C18_LateResponseIgnored ==
    [][\A p \in Payloads :
          BodyArrives(p) /\ search.elapsed >= searchTimeout
              => UNCHANGED <<allTrails, savedTrails, highlightedTrailIds, trailLayers>>]_vars

\* the notices of a failed search
FailureNotices == {"Error searching trails", "Search timed out"}

\* C19: a search that ends with a failure notice leaves the view, the saved
\* set, the id index and the layers as they were; so a search that changed
\* one of them does not end with a failure notice.
C19_FailureAppliesNothing ==
    [][search.pc # "idle" /\ search'.pc = "idle" /\ toast' \in FailureNotices
          => UNCHANGED <<allTrails, savedTrails, trailsById, trailLayers>>]_vars

\* C20: in every reachable state, also when a trail was removed while a
\* hierarchy run was in flight, every trail in the childRelations of a trail
\* of the view is in the view.
C20_ChildrenInView ==
    \A p \in Range(allTrails) : \A c \in Range(obj[p].kids) : Has(allTrails, c)

\* C30: a hierarchy run whose lookups all settle ends, and it refreshes the
\* list exactly once: not while a lookup of the run is pending, once when the
\* run is over, whether the lookups found parents or failed.
C30_RunRefreshesOnce ==
    /\ [](walk.active => walk.refreshes = 0)
    /\ [](~walk.active /\ Len(walk.trails) > 0 => walk.refreshes = 1)
    /\ (walk.active ~> (~walk.active /\ walk.refreshes = 1))

\* a run of two batches is over; some lookups found parents, some did not
C30_Witness ==
    /\ ~walk.active
    /\ walk.refreshes = 1
    /\ Len(walk.trails) > batchSize
    /\ walk.processed # {}
    /\ walk.processed # Range(walk.trails)

\* C25: the selection set changes only in a select/deselect/toggle gesture and
\* in save-selected; a search, a batch or the end of a hierarchy run,
\* removeTrail, clearSavedTrails, saveTrail, saveParentRoute and the load of a
\* share link leave it as it is (a page load starts with the empty set, and
\* the share link it loads leaves that set empty).
C25_SelectionFrame ==
    [][highlightedTrailIds' # highlightedTrailIds =>
          \/ \E id \in Ids : toggleTrailHighlight(id)
          \/ \E full \in BOOLEAN : saveSelectedTrails(full)
          \/ /\ highlightedTrailIds' = <<>>
             /\ \E url \in Urls, full \in BOOLEAN : Restart(url, full)]_vars

\* a trail is selected, and removeTrail took it from the view and the map
C25_Witness ==
    /\ toast = "Trail removed"
    /\ \E id \in Range(highlightedTrailIds) : ~Has(allTrails, id) /\ id \notin trailLayers

RECURSIVE Flatten(_)
\* the entries of wayGroups, one after the other
Flatten(groups) == IF groups = <<>> THEN <<>> ELSE Head(groups) \o Flatten(Tail(groups))

\* C28: for every trail of the store, the entries of wayGroups one after the
\* other are its coordinates.
C28_WayGroupsAreCoordinates ==
    \A i \in Range(allTrails) \cup Range(savedTrails) :
        Flatten(shapes[i].wayGroups) = shapes[i].coordinates

\* the trails of the view in order, with their coordinates and wayGroups
View == [trails |-> allTrails,
         shapes |-> [i \in Rels |-> IF Has(allTrails, i) THEN shapes[i] ELSE NoShape]]

\* C29: assembling the same element list twice from the same saved set gives
\* the same trails: the view a search leaves is the view the same answer
\* would leave again, the same ids in the same order with the same wayGroups
\* and the same coordinates.
C29_AssemblyIdempotent ==
    [][\A els \in Datas :
          searchGeometry(els) => View' = SearchView(els) /\ SearchView(els)' = View']_vars

\* a search assembled a trail of two ways next to a saved trail
C29_Witness ==
    /\ toast = "Fetching parent routes..."
    /\ Len(savedTrails) > 0
    /\ \E i \in Range(allTrails) \ Range(savedTrails) :
            Len(shapes[i].wayGroups) > 1 /\ Len(shapes[i].coordinates) > Len(shapes[i].wayGroups)

\* C21: with the overlay disabled, a click with exactly one trail within the
\* tolerance toggles that trail's selection and focuses it; a click with
\* several selects every one of them, deselects none and focuses the first
C21_ToleranceClick ==
    [][\A point \in ClickPoints, id \in Ids :
        ~voronoiVisible /\ handleTrailClick(point, id) =>
            LET hits == findTrailsAtPoint(point)
            IN  /\ Len(hits) = 1 =>
                    /\ Has(highlightedTrailIds', hits[1]) = ~Has(highlightedTrailIds, hits[1])
                    /\ focused' = hits[1]
                /\ Len(hits) > 1 =>
                    /\ \A i \in Range(hits) \cup Range(highlightedTrailIds) :
                            Has(highlightedTrailIds', i)
                    /\ focused' = hits[1]]_vars

\* the owners of the sampled points of the rendered trails nearest to point
NearestOwners(point) ==
    LET sites == collectTrailPoints(LayerOrder(allTrails, trailLayers),
                                    Pow2(diagram.samplingLevel))
    IN  {sites[j].trailId : j \in {j \in DOMAIN sites : \A k \in DOMAIN sites :
                                Dist2(sites[j].point, point) <= Dist2(sites[k].point, point)}}

\* C22: whenever the overlay is enabled, a click changes the selection state
\* of exactly one trail, the owner of the sampled point nearest to the click
C22_VoronoiClick ==
    [][\A point \in ClickPoints, id \in Ids :
        voronoiVisible /\ handleTrailClick(point, id) =>
            \E owner \in NearestOwners(point) :
                \A i \in Rels : (Has(highlightedTrailIds', i) # Has(highlightedTrailIds, i))
                                    <=> i = owner]_vars

\* the trails a click can be attributed to: the owners findNearestTrail
\* finds for the sites of the diagram
Owners(d) == {d.points[i].trailId : i \in DOMAIN d.voronoi \cap DOMAIN d.points}

\* C23: while the overlay is enabled and a diagram is built, the owners of
\* its sites are exactly the rendered trails: no click is attributed to a
\* trail that was removed
C23_OwnersAreRendered ==
    voronoiVisible =>
        /\ Owners(diagram) \subseteq trailLayers
        /\ diagram.voronoi # <<>> => trailLayers \subseteq Owners(diagram)

\* C27: every rendered trail lies in the tier of its state: selected trails
\* in the selected tier, saved unselected trails in the saved tier, all
\* others in the searched tier
C27_StackingTiers ==
    \A i \in trailLayers :
        panes[i] = IF Has(highlightedTrailIds, i) THEN "selectedTrailsPane"
                   ELSE IF Has(savedTrails, i) THEN "savedTrailsPane"
                   ELSE "searchedTrailsPane"

\* C26: a hover changes neither the selection nor the saved set nor the
\* store, and when the pointer leaves a hovered trail its colour is the
\* selection colour if it is selected, else the saved colour if it is saved,
\* else the default colour
C26_HoverRestoresColour ==
    [][\A id \in Ids, highlight \in BOOLEAN :
        highlightTrail(id, highlight) =>
            /\ UNCHANGED <<highlightedTrailIds, savedTrails, savedTrailIds, allTrails,
                           trailsById, stored, obj>>
            /\ ~highlight /\ id \in trailLayers /\ colors[id] = Blue =>
                    colors'[id] = IF Has(highlightedTrailIds, id) THEN Blue
                                  ELSE IF Has(savedTrails, id) THEN Green
                                  ELSE Red]_vars

\* C24: toggleParentAndChildren(p) on a parent p of the store puts p and
\* every child into the selection when p is unselected, takes p and every
\* child out when p is selected, and leaves every other trail as it was
C24_ParentToggle ==
    \A p \in Ids :
        ParentItem(p) =>
            \A i \in Rels :
                Has(toggleParentResult(p).h, i) =
                    IF i = p \/ Has(obj[p].kids, i) THEN ~Has(highlightedTrailIds, p)
                    ELSE Has(highlightedTrailIds, i)

\* the step is the page load with the query string link
Opens(link) ==
    /\ requested' = (IF Truthy(link.refs) THEN QueryIds(link.refs) ELSE <<>>)
    /\ viewport' = LinkView(link, trailLayers')
    /\ openLink(link)

RECURSIVE Resolved(_, _)
\* in order, the (lat, lon) of each listed node id that has a node element
Resolved(els, nodeIds) ==
    IF nodeIds = <<>> THEN <<>>
    ELSE LET ix == NodeIndexes(els, Head(nodeIds))
         IN  (IF ix = {} THEN <<>> ELSE <<<<els[Max(ix)].lat, els[Max(ix)].lon>>>>)
             \o Resolved(els, Tail(nodeIds))

\* C33: the coordinate sequence of a way is, in order, the (lat, lon) of each
\* listed node that has a node element, whatever the numbers are: every way
\* group of a trail of the view is the resolution of a way of the map data
C33_WayResolution ==
    \A i \in Range(allTrails) :
        \A k \in DOMAIN shapes[i].wayGroups :
            \E j \in DOMAIN MapWays :
                shapes[i].wayGroups[k] = Resolved(MapNodes, MapWays[j].nodes)

\* the coordinates of the member ways that resolved, in member order
MemberWays(els, members) ==
    LET ways == SelectSeq(members,
                    LAMBDA member : member.type = "way" /\ WayIndexes(els, member.ref) # {})
    IN  [k \in DOMAIN ways |->
            WayCoordinates(els, els[Max(WayIndexes(els, ways[k].ref))].nodes)]

\* what C34 expects of every answer: the way groups of each relation
Expected ==
    [els \in Datas |->
        [k \in {k \in DOMAIN els : els[k].type = "relation"} |->
            MemberWays(els, els[k].members)]]

\* C34: a search gives every relation of the answer that is not saved one way
\* group per resolved member way, in member order and with repetitions, and
\* their points as coordinates; the relation becomes a trail if and only if
\* there is a coordinate
C34_RelationAssembly ==
    [][\A els \in Datas :
        searchGeometry(els) =>
            \A k \in DOMAIN Expected[els] :
                LET id == els[k].id
                    groups == Expected[els][k]
                IN  ~Has(savedTrails, id) =>
                        IF Flatten(groups) = <<>> THEN ~Has(allTrails', id)
                        ELSE /\ Has(allTrails', id)
                             /\ shapes'[id].wayGroups = groups
                             /\ shapes'[id].coordinates = Flatten(groups)]_vars

C34_Witness ==
    /\ toast = "Fetching parent routes..."
    /\ \E i \in Range(allTrails) \ Range(savedTrails) :
            /\ Len(shapes[i].wayGroups) = 3
            /\ shapes[i].wayGroups[1] = shapes[i].wayGroups[3]
            /\ Len(shapes[i].coordinates) = 6
    /\ \E i \in Ids : ~Has(allTrails, i)

\* C38: saveSelectedTrails with a non-empty selection, the write succeeding,
\* leaves the selection empty, every selected id of the index in the saved
\* set exactly once and in the store, the saved trails it had in place, and
\* adds no id that is not in the index
C38_SaveSelection ==
    [][saveSelectedTrails(FALSE) /\ Len(highlightedTrailIds) > 0 =>
            /\ highlightedTrailIds' = <<>>
            /\ \A id \in Range(highlightedTrailIds) \cap trailsById :
                    /\ Count(savedTrails', id) = 1
                    /\ Has(stored'.trails, id)
            /\ SubSeq(savedTrails', 1, Len(savedTrails)) = savedTrails
            /\ Range(savedTrails') \subseteq
                    Range(savedTrails) \cup (Range(highlightedTrailIds) \cap trailsById)]_vars

\* C39: saveParentRoute(p) for a parent p of the index leaves p and every
\* trail of p.childRelations in the saved set exactly once each, and the
\* persisted store with the ids of the saved set
C39_SaveParent ==
    [][\A p \in Ids :
        saveParentRoute(p, FALSE) /\ p \in trailsById =>
            /\ \A id \in {p} \cup Range(obj[p].kids) : Count(savedTrails', id) = 1
            /\ Range(stored'.trails) = Range(savedTrails')]_vars

\* the ids a refs parameter lists
Listed(refs) ==
    LET ids == [k \in DOMAIN refs.parts |->
                    IF refs.parts[k] = "1" THEN 1
                    ELSE IF refs.parts[k] \in {"2", " 2"} THEN 2 ELSE 0]
    IN  SelectSeq(ids, LAMBDA id : id # 0)

\* the four numbers of a bbox parameter, if it is four numbers
Numbers(bbox) ==
    [k \in DOMAIN bbox.parts |->
        IF bbox.parts[k] = "10" THEN 10 ELSE IF bbox.parts[k] = "11" THEN 11 ELSE 0]

FourNumbers(bbox) ==
    bbox.present /\ Len(bbox.parts) = 4 /\ \A k \in 1..4 : bbox.parts[k] \in {"0", "10", "11"}

\* C31: a page load with refs and a bbox of four numbers asks for exactly
\* the listed relations and has the viewport at the bbox while the fetch is
\* in flight; a fetch that fails leaves the viewport where it is
C31_LinkViewport ==
    [][/\ \A link \in {l \in Links : Truthy(l.refs)} :
            Opens(link) =>
                /\ sharedPending'
                /\ requested' = Listed(link.refs)
                /\ FourNumbers(link.bbox) =>
                        viewport' = [kind |-> "box", box |-> Numbers(link.bbox), trails |-> {}]
       /\ linkFails => viewport' = viewport]_vars

C31_Witness ==
    /\ ~sharedPending
    /\ toast = "Error loading shared trails"
    /\ viewport.kind = "box"
    /\ viewport.box[1] = 0
    /\ Len(savedTrails) > 0

RECURSIVE NewOnes(_, _)
\* the ids of ts that are not in seen, each once, in order
NewOnes(seen, ts) ==
    IF ts = <<>> THEN <<>>
    ELSE IF Head(ts) \in seen THEN NewOnes(seen, Tail(ts))
    ELSE <<Head(ts)>> \o NewOnes(seen \cup {Head(ts)}, Tail(ts))

\* the saved set is sv0 followed by the shared trails ts that were not in it,
\* it is persisted and the view holds it
Merged(sv0, ts) ==
    /\ savedTrails' = sv0 \o NewOnes(Range(sv0), ts)
    /\ stored'.present
    /\ stored'.trails = savedTrails'
    /\ allTrails' = savedTrails'

C40_LayersMatchView ==
    trailLayers = {i \in Range(allTrails) : obj[i].geo}

\* C32: every relation that has children from the resolver, every synthetic
\* parent and every parent id merged into one has the type route,
\* superroute or network
C32_AcceptedParents ==
    \A p \in Rels :
        /\ (obj[p].kids # <<>> \/ obj[p].po) => TypeOf(p) \in {"route", "superroute", "network"}
        /\ \A q \in Range(obj[p].merged) : TypeOf(q) \in {"route", "superroute", "network"}

C32_Witness ==
    /\ obj[3].po
    /\ obj[3].kids = <<1, 2>>
    /\ obj[3].merged = <<3, 4>>
    /\ ~obj[4].po
    /\ obj[1].kids = <<>>
    /\ obj[2].kids = <<>>
    /\ runs = <<>>

\* the orders in which the lookups that settled as done can have settled
ArrivalOrders(done) ==
    {other \in [DOMAIN done -> Range(done)] : Range(other) = Range(done)}

\* C36: what a hierarchy run leaves (the view, the index, the parents'
\* children and merged ids) is the same for every order in which the
\* lookups of the batch settle with the same outcomes
C36_ArrivalOrder ==
    [][promisesSettle =>
        \A other \in ArrivalOrders(settled) :
            /\ obj' = HierarchyResult(1, PromiseAll(other)).obj
            /\ allTrails' = HierarchyResult(1, PromiseAll(other)).allTrails
            /\ trailsById' = HierarchyResult(1, PromiseAll(other)).trailsById]_vars

C36_Witness ==
    /\ Len(runs) = 1
    /\ Len(settled) = 2
    /\ settled[1].j = 2
    /\ settled[1].outcome.kind = "ok"
    /\ settled[2].outcome.kind = "ok"
    /\ Len(settled[1].outcome.parents) = 1
    /\ Len(settled[2].outcome.parents) = 1
    /\ settled[1].outcome.parents[1].id # settled[2].outcome.parents[1].id
    /\ settled[1].outcome.parents[1].name = settled[2].outcome.parents[1].name

\* C37: when no search is waiting for its answer, the view holds the saved
\* trails and the results of the search that was issued last
C37_LastIssuedWins ==
    (latest.issued /\ inflight = <<>>) =>
        Range(allTrails) = Range(savedTrails) \cup Range(latest.rs)

====
